---- MODULE Spec2Model ----
(***************************************************************************)
(* A model of luks.go: the read-only unsealing path of LUKS1 and LUKS2     *)
(* volumes.  One behaviour is one opened device (deviceV1 or deviceV2)     *)
(* over one backing file, and a caller that invokes the Device operations  *)
(* one at a time.                                                          *)
(*                                                                         *)
(* Byte buffers are sequences over 0..255 with their real lengths (keys    *)
(* and digests of 20..64 bytes).  The library primitives the code calls    *)
(* (PBKDF2, Argon2, XTS, the hash functions, base64) are replaced by small *)
(* arithmetic functions with the same shape: same inputs, same output      *)
(* length, keyed, invertible where the primitive is.  The keyslot area of  *)
(* stripesNum stripes is represented by its first AreaStripes stripes;     *)
(* all size and alignment arithmetic uses the real constants.              *)
(***************************************************************************)
EXTENDS Integers, Sequences, FiniteSets, TLC

(* ------------------------------ bounds -------------------------------- *)

\* LUKS2 keyslot ids of the modelled headers are 0..MaxSlot
MaxSlot == 1
\* the caller tries the one-byte passphrases <<1>> .. <<MaxPass>>
MaxPass == 3
\* number of stripes of a keyslot area whose bytes are represented
AreaStripes == 2
\* at most this many of the 8 LUKS1 keyslots are enabled in a modelled header
MaxEnabled == 2
\* FlagsAdd is modelled while the flags list is shorter than this
MaxFlags == 2

(* --------------------------- program constants ------------------------ *)

storageSectorSize == 512
stripesNum == 4000
luksV1SlotEnabled == 11301363
luksV1NumSlots == 8
ErrPassphraseDoesNotMatch == "ErrPassphraseDoesNotMatch"

(* ------------------------------ util.go ------------------------------- *)

IsZero(s) == \A i \in DOMAIN s : s[i] = 0

\* a function on 1..n as the sequence of its values
AsSeq(f) == f \o << >>

\* a mutant of clearSlice: the loop starts at index 1 and leaves the first byte
clearSlice_skipFirst(slice) == AsSeq([i \in DOMAIN slice |-> IF i = 1 THEN slice[i] ELSE 0])

clearSlice(slice) == AsSeq([i \in DOMAIN slice |-> 0])

\* make([]byte, n)
MakeBytes(n) == AsSeq([i \in 1..n |-> 0])

\* getHashAlgo: the digest size of a registered hash name, 0 for "not found" (nil)
getHashAlgo(name) ==
    CASE name = "sha1" -> 20
      [] name = "sha224" -> 28
      [] name = "sha256" -> 32
      [] name = "sha384" -> 48
      [] name = "sha512" -> 64
      [] name = "sha3-224" -> 28
      [] name = "sha3-256" -> 32
      [] name = "sha3-384" -> 48
      [] name = "sha3-512" -> 64
      [] name = "ripemd160" -> 20
      [] name = "blake2b-160" -> 20
      [] name = "blake2b-256" -> 32
      [] name = "blake2b-384" -> 48
      [] name = "blake2b-512" -> 64
      [] name = "blake2s-256" -> 32
      [] OTHER -> 0

\* getCipher: TRUE when the cipher name is registered
getCipher(name) == name \in {"aes", "camellia", "twofish"}

(* ------------------- library primitives (stand-ins) ------------------- *)

\* a * b modulo the prime 65521, without leaving the range of the integers
MulMod(a, b) == (((a * (b \div 256)) % 65521) * 256 + a * (b % 256)) % 65521

RECURSIVE Pow31(_)
\* 31^k modulo 65521
Pow31(k) ==
    IF k = 0 THEN 1
    ELSE IF k % 2 = 1 THEN (31 * Pow31(k - 1)) % 65521
    ELSE LET square(h) == MulMod(h, h) IN square(Pow31(k \div 2))

RECURSIVE WSumLin(_, _, _)
\* the sum of s[i] * 31^(hi - i) for i in lo..hi, modulo 65521, byte after byte
WSumLin(s, lo, hi) == IF hi < lo THEN 0 ELSE (31 * WSumLin(s, lo, hi - 1) + s[hi]) % 65521

RECURSIVE WSumRange(_, _, _)
\* the same sum, by halves when the range is long
WSumRange(s, lo, hi) ==
    IF hi - lo < 8 THEN WSumLin(s, lo, hi)
    ELSE (MulMod(WSumRange(s, lo, (lo + hi) \div 2), Pow31(hi - (lo + hi) \div 2))
            + WSumRange(s, (lo + hi) \div 2 + 1, hi)) % 65521

\* the polynomial checksum of the first n bytes of s, modulo the prime 65521:
\* W(0) = 1, W(n) = 31 * W(n - 1) + s[n]
WSumTo(s, n) == (Pow31(n) + WSumRange(s, 1, n)) % 65521

\* a position-sensitive checksum of a buffer: what the stand-ins mix in
WSum(s) == WSumTo(s, Len(s))

\* a number that tells the hash functions apart
HashSeed(name) ==
    CASE name = "sha1" -> 1
      [] name = "sha224" -> 2
      [] name = "sha256" -> 3
      [] name = "sha384" -> 4
      [] name = "sha512" -> 5
      [] name = "sha3-224" -> 6
      [] name = "sha3-256" -> 7
      [] name = "sha3-384" -> 8
      [] name = "sha3-512" -> 9
      [] name = "ripemd160" -> 10
      [] name = "blake2b-160" -> 11
      [] name = "blake2b-256" -> 12
      [] name = "blake2b-384" -> 13
      [] name = "blake2b-512" -> 14
      [] name = "blake2s-256" -> 15
      [] OTHER -> 0

\* the byte of data that output position i depends on directly
Pick(data, i) == IF Len(data) = 0 THEN 0 ELSE data[((i - 1) % Len(data)) + 1]

\* hash.Hash: Reset, Write(data), Sum: the digest of data, h.Size() bytes
HashSum(h, data) ==
    LET w == HashSeed(h) + 7 * WSum(data)
    IN  AsSeq([i \in 1..getHashAlgo(h) |-> (w + 31 * i + Pick(data, i)) % 256])

\* pbkdf2.Key(password, salt, iter, keyLen, h)
pbkdf2Key(password, salt, iter, keyLen, h) ==
    LET w == HashSeed(h) + 3 * iter + 5 * WSum(salt) + 7 * WSum(password)
    IN  AsSeq([i \in 1..keyLen |-> (w + Pick(password, i) + 11 * i) % 256])

\* argon2.Key / argon2.IDKey(password, salt, time, memory, threads, keyLen)
argon2Key(variant, password, salt, time, memory, threads, keyLen) ==
    LET w == variant + 3 * time + memory + threads + 5 * WSum(salt) + 7 * WSum(password)
    IN  AsSeq([i \in 1..keyLen |-> (w + Pick(password, i) + 13 * i) % 256])

\* xts.NewCipher(cipherFunc, key): the key is split in two halves, each a key of the
\* block cipher (16, 24 or 32 bytes for aes, camellia and twofish)
xtsNewCipherOk(key) == Len(key) % 2 = 0 /\ (Len(key) \div 2) \in {16, 24, 32}

\* the keystream byte an XTS cipher keyed with key applies in sector sectorNum
xtsPad(key, sectorNum) == (WSum(key) + 17 * sectorNum) % 256

\* (*xts.Cipher).Decrypt(block, block, sectorNum)
xtsDecrypt(key, block, sectorNum) ==
    LET pad == xtsPad(key, sectorNum)
    IN  AsSeq([j \in DOMAIN block |-> (block[j] + 256 - pad) % 256])

\* (*xts.Cipher).Encrypt, used by the formatter that wrote the image
xtsEncrypt(key, block, sectorNum) ==
    LET pad == xtsPad(key, sectorNum)
    IN  AsSeq([j \in DOMAIN block |-> (block[j] + pad) % 256])

(* ---------------------------- antiforensic ---------------------------- *)

RECURSIVE xorBits(_, _)
\* a ^ b, bit by bit
xorBits(a, b) ==
    IF a = 0 THEN b
    ELSE IF b = 0 THEN a
    ELSE 2 * xorBits(a \div 2, b \div 2) + ((a + b) % 2)

\* a ^ b on the half-bytes 0..15, tabulated
XorNibble == [a \in 0..15 |-> [b \in 0..15 |-> xorBits(a, b)]]

\* a ^ b on bytes
xorByte(a, b) == 16 * XorNibble[a \div 16][b \div 16] + XorNibble[a % 16][b % 16]

\* xorSlices(src1, src2, dest): the new contents of dest
xorSlices(src1, src2, dest) == AsSeq([i \in DOMAIN dest |-> xorByte(src1[i], src2[i])])

\* binary.BigEndian.PutUint32
BE32(iv) ==
    << (iv \div 16777216) % 256, (iv \div 65536) % 256, (iv \div 256) % 256, iv % 256 >>

\* hashBuffer(src, h, iv, result): result with the digest of iv|src appended
hashBuffer(src, h, iv, result) == result \o HashSum(h, BE32(iv) \o src)

RECURSIVE diffuseBlocks(_, _, _, _)
\* the loop of diffuse: blocks i .. sliceSize/digestSize - 1 appended to result
diffuseBlocks(src, h, i, result) ==
    LET digestSize == getHashAlgo(h)
    IN  IF i < Len(src) \div digestSize
        THEN diffuseBlocks(src, h, i + 1,
                hashBuffer(SubSeq(src, i * digestSize + 1, (i + 1) * digestSize), h, i, result))
        ELSE result

diffuse(src, h) ==
    LET sliceSize == Len(src)
        digestSize == getHashAlgo(h)
        padding == sliceSize % digestSize
        \* full: the digests of the whole blocks
        padded(full) ==
            IF padding # 0
            THEN SubSeq(hashBuffer(SubSeq(src, sliceSize - padding + 1, sliceSize), h,
                                   sliceSize \div digestSize, full), 1, sliceSize)
            ELSE full
    IN  padded(diffuseBlocks(src, h, 0, << >>))

RECURSIVE afChain(_, _, _, _, _, _)
\* the loop shared by afSplit and afMerge: blocks i .. last-1 folded into buffer
afChain(src, blockSize, i, last, h, buffer) ==
    IF i < last
    THEN LET b == SubSeq(src, blockSize * i + 1, blockSize * (i + 1))
         IN  afChain(src, blockSize, i + 1, last, h, diffuse(xorSlices(b, buffer, buffer), h))
    ELSE buffer

\* a mutant of afSplit: the last stripe is the secret itself
afSplit_plainLast(src, blockNum, h, rnd) == rnd \o src

\* afSplit(src, blockNum, h) with rnd the blockNum-1 random stripes rand.Read drew
afSplit(src, blockNum, h, rnd) ==
    LET blockSize == Len(src)
        buffer == afChain(rnd, blockSize, 0, blockNum - 1, h, MakeBytes(blockSize))
    IN  rnd \o xorSlices(src, buffer, MakeBytes(blockSize))

\* afMerge(src, blockSize, blockNum, h): [err, key]
afMerge(src, blockSize, blockNum, h) ==
    LET last(buffer) ==
            xorSlices(SubSeq(src, blockSize * (blockNum - 1) + 1, blockSize * blockNum),
                      buffer, buffer)
    IN  IF blockSize * blockNum > Len(src)
        THEN [err |-> "af merge input buffer size mismatch", key |-> << >>]
        ELSE [err |-> "nil",
              key |-> last(afChain(src, blockSize, 0, blockNum - 1, h, MakeBytes(blockSize)))]

(* ------------------------ text and numbers ---------------------------- *)

\* a string whose characters the code looks at is a sequence of one-character strings
Digits == << "0", "1", "2", "3", "4", "5", "6", "7", "8", "9" >>

IsDigit(c) == \E i \in 1..10 : Digits[i] = c

DigitVal(c) == (CHOOSE i \in 1..10 : Digits[i] = c) - 1

RECURSIVE Dec(_)
\* the decimal text of a natural number, as the formatter writes it
Dec(n) == IF n < 10 THEN << Digits[n + 1] >> ELSE Dec(n \div 10) \o << Digits[(n % 10) + 1] >>

RECURSIVE DigitsVal(_)
DigitsVal(s) ==
    IF Len(s) = 0 THEN 0 ELSE 10 * DigitsVal(SubSeq(s, 1, Len(s) - 1)) + DigitVal(s[Len(s)])

\* strconv.ParseInt(s, 10, 64), strconv.Atoi(s) and json.Number.Int64(): [err, v]
ParseInt(s) ==
    LET signed == Len(s) > 0 /\ s[1] \in {"+", "-"}
        body == IF signed THEN Tail(s) ELSE s
    IN  IF Len(body) = 0 \/ \E i \in DOMAIN body : ~IsDigit(body[i])
        THEN [err |-> "invalid syntax", v |-> 0]
        ELSE [err |-> "nil",
              v |-> IF signed /\ s[1] = "-" THEN 0 - DigitsVal(body) ELSE DigitsVal(body)]

dynamic == << "d", "y", "n", "a", "m", "i", "c" >>

\* a base64 text, held as what base64.StdEncoding.DecodeString makes of it
B64(bytes) == [ok |-> TRUE, bytes |-> bytes]
BadB64 == [ok |-> FALSE, bytes |-> << >>]

\* base64.StdEncoding.DecodeString: [err, bytes]
base64Decode(text) == [err |-> IF text.ok THEN "nil" ELSE "illegal base64 data", bytes |-> text.bytes]

RECURSIVE SortedSeq(_)
\* the elements of a finite set of integers in ascending order
SortedSeq(S) ==
    IF S = {} THEN << >>
    ELSE LET m == CHOOSE x \in S : \A y \in S : x <= y
         IN  << m >> \o SortedSeq(S \ {m})

\* the decimal texts of a list of numbers
DecAll(seq) == AsSeq([i \in DOMAIN seq |-> Dec(seq[i])])

\* all orders in which a Go map range can visit the keys S
Orders(S) == {o \in [1..Cardinality(S) -> S] : \A i, j \in DOMAIN o : o[i] = o[j] => i = j}

\* the subsequence of seq whose elements satisfy membership in S, in order
RECURSIVE SelectIn(_, _)
SelectIn(seq, S) ==
    IF Len(seq) = 0 THEN << >>
    ELSE (IF Head(seq) \in S THEN << Head(seq) >> ELSE << >>) \o SelectIn(Tail(seq), S)

(* ------------------------------- files -------------------------------- *)

\* the represented bytes of a buffer of n real bytes holding stripesNum blocks
Represented(n) == (n \div stripesNum) * AreaStripes

\* bytes padded with zeros or cut to n bytes
Fit(bytes, n) == AsSeq([i \in 1..n |-> IF i <= Len(bytes) THEN bytes[i] ELSE 0])

\* (*os.File).ReadAt(buf, off) for a buffer of n real bytes: [err, bytes]
ReadAt(f, n, off) ==
    IF f.closed THEN [err |-> "file already closed", bytes |-> MakeBytes(Represented(n))]
    ELSE IF off < 0 THEN [err |-> "negative offset", bytes |-> MakeBytes(Represented(n))]
    ELSE IF off + n > f.size THEN [err |-> "EOF", bytes |-> MakeBytes(Represented(n))]
    ELSE [err |-> "nil",
          bytes |-> IF off \in DOMAIN f.areas THEN Fit(f.areas[off], Represented(n))
                    ELSE MakeBytes(Represented(n))]

\* a mutant of fileSize: one sector more than the file holds
fileSize_sectorMore(f) ==
    IF f.closed THEN [err |-> "use of closed file", size |-> 0]
    ELSE [err |-> "nil", size |-> f.size + 512]

\* fileSize(f): [err, size]
fileSize(f) ==
    IF f.closed THEN [err |-> "use of closed file", size |-> 0]
    ELSE [err |-> "nil", size |-> f.size]

(* ----------------------- unsigned 64-bit numbers ----------------------- *)

\* a uint64 is held as the int64 that has the same 64 bits: n >= 0 stands for n and
\* n < 0 stands for 2^64 + n, the value the conversion of a negative number gives

\* uint64(x) of an int, int64 or uint32 x: the bits are kept
uint64(x) == x

\* a mutant of ult: no number is below another
ult_never(a, b) == FALSE

\* a < b on uint64
ult(a, b) == IF (a < 0) = (b < 0) THEN a < b ELSE b < 0

\* 2^64 % m, for 0 < m < 2^15
TwoTo64Mod(m) ==
    LET squareMod(x) == (x * x) % m
    IN  squareMod(squareMod(65536 % m))

\* a % m on uint64, for 0 < m < 2^15
umod(a, m) == IF a >= 0 THEN a % m ELSE (TwoTo64Mod(m) + (a % m)) % m

(* ------------------------------ volume -------------------------------- *)

flagsKernelNames ==
    {"allow-discards", "same-cpu-crypt", "submit-from-crypt-cpus",
     "no-read-workqueue", "no-write-workqueue"}

\* what devmapper.CreateAndLoad can return
DmOutcomes == {"nil", "devmapper: ioctl failed"}

\* (*Volume).SetupMapper(name); dm is what devmapper.CreateAndLoad returns
SetupMapper(v, dm) ==
    IF \E i \in DOMAIN v.Flags : v.Flags[i] \notin flagsKernelNames THEN "unknown LUKS flag"
    ELSE IF v.StorageSectorSize = 0 THEN "panic: integer divide by zero"
    ELSE IF umod(v.StorageSize, v.StorageSectorSize) # 0
         THEN "storage size must be multiple of sector size"
    ELSE IF umod(v.StorageOffset, v.StorageSectorSize) # 0
         THEN "offset must be multiple of sector size"
    ELSE dm

(* ------------------------------ luks2.go ------------------------------ *)

\* what one UnsealVolume call leaves behind: its return values, the contents at
\* return of the buffers it allocated (<< >> when never allocated), the contents
\* those buffers had when they were filled (made*), and what it touched
NoUnseal ==
    [err |-> "nil", vol |-> << >>,
     afKey |-> << >>, keyData |-> << >>, generatedDigest |-> << >>, finalKey |-> << >>,
     madeAfKey |-> << >>, madeKeyData |-> << >>, madeDigest |-> << >>, madeFinalKey |-> << >>,
     expectedDigest |-> << >>, kdfRan |-> FALSE, areaRead |-> FALSE, digestUsed |-> -1,
     compared |-> {}]

\* bytes.Equal(a, b): [eq, examined].  eq is the result.  examined is how many bytes
\* of a the comparison looked at before it returned, one number per way the runtime
\* compares: byte by byte, or 8 bytes at a time (slices shorter than 64 bytes on
\* amd64 and arm64).  Both return at the first unit that differs.
bytesEqual(a, b) ==
    LET diff == {i \in 1..Len(a) : a[i] # b[i]}
        first == IF diff = {} THEN Len(a) ELSE CHOOSE i \in diff : \A j \in diff : i <= j
        units(w) == ((first + w - 1) \div w) * w
        upTo(w) == IF units(w) < Len(a) THEN units(w) ELSE Len(a)
    IN  [eq |-> a = b,
         examined |-> IF Len(a) # Len(b) THEN {0} ELSE {upTo(1), upTo(8)}]

\* the zero value of segment, which a missing key of d.meta.Segments yields
ZeroSegment ==
    [Type |-> "", Offset |-> << >>, IvTweak |-> << >>, Size |-> << >>,
     Encryption |-> << >>, SectorSize |-> 0]

\* deriveLuks2AfKey(kdf, keyslotIdx, passphrase, keyLength): [err, key]
deriveLuks2AfKey(kdf, passphrase, keyLength) ==
    LET salt == base64Decode(kdf.Salt)
    IN  IF salt.err # "nil" THEN [err |-> "kdf.salt base64 parsing failed", key |-> << >>]
        ELSE CASE kdf.Type = "pbkdf2" ->
                    IF kdf.Hash \in {"sha256", "sha512"}
                    THEN [err |-> "nil",
                          key |-> pbkdf2Key(passphrase, salt.bytes, kdf.Iterations, keyLength, kdf.Hash)]
                    ELSE [err |-> "Unknown kdf.hash algorithm", key |-> << >>]
               [] kdf.Type = "argon2i" ->
                    [err |-> "nil",
                     key |-> argon2Key(1, passphrase, salt.bytes, kdf.Time, kdf.Memory, kdf.Cpus, keyLength)]
               [] kdf.Type = "argon2id" ->
                    [err |-> "nil",
                     key |-> argon2Key(2, passphrase, salt.bytes, kdf.Time, kdf.Memory, kdf.Cpus, keyLength)]
               [] OTHER -> [err |-> "Unknown kdf type", key |-> << >>]

\* buildLuks2AfCipher(encryption, afKey): the error, "nil" when the cipher is built.
\* encryption is held as the parts strings.Split(encryption, "-") yields
buildLuks2AfCipher(encryption, afKey) ==
    IF Len(encryption) # 3 THEN "Unexpected encryption format"
    ELSE IF ~getCipher(encryption[1]) THEN "Unknown cipher"
    ELSE IF encryption[2] # "xts" THEN "Unknown encryption mode"
    ELSE IF ~xtsNewCipherOk(afKey) THEN "xts: invalid key"
    ELSE "nil"

RECURSIVE decryptSectors(_, _, _, _)
\* the decryption loop over the sectors of keyData, from sector i on; each
\* represented stripe of blockSize bytes stands for one sector
decryptSectors(afKey, keyData, blockSize, i) ==
    IF blockSize > 0 /\ (i + 1) * blockSize <= Len(keyData)
    THEN xtsDecrypt(afKey, SubSeq(keyData, i * blockSize + 1, (i + 1) * blockSize), i)
            \o decryptSectors(afKey, keyData, blockSize, i + 1)
    ELSE << >>

\* a mutant of keyResult: the keyslot area counts as read on every return
keyResult_read(err, key, keyData, areaRead) ==
    [err |-> err, key |-> key, madeKeyData |-> keyData, keyData |-> clearSlice(keyData),
     areaRead |-> TRUE]

\* what decryptLuks2VolumeKey / decryptLuks1VolumeKey leave behind: the error and
\* key they return, the contents keyData had before and after the deferred
\* clearSlice(keyData) (<< >> when never allocated), and whether the area was read
keyResult(err, key, keyData, areaRead) ==
    [err |-> err, key |-> key, madeKeyData |-> keyData, keyData |-> clearSlice(keyData),
     areaRead |-> areaRead]

\* (*deviceV2).decryptLuks2VolumeKey(keyslotIdx, keyslot, afKey):
\* [err, key, keyData, madeKeyData, areaRead]
decryptLuks2VolumeKey(f, keyslot, afKey) ==
    LET area == keyslot.Area
        af == keyslot.Af
        keyslotSize == keyslot.KeySize * stripesNum
        areaSize == ParseInt(area.Size)
        keyslotOffset == ParseInt(area.Offset)
        \* keyData after the decryption loop
        merge(plain) ==
            IF af.Stripes # stripesNum
            THEN keyResult("LUKS currently supports only af with 4000 stripes", << >>, plain, TRUE)
            ELSE IF getHashAlgo(af.Hash) = 0
            THEN keyResult("Unknown af hash algorithm", << >>, plain, TRUE)
            ELSE LET merged(m) == keyResult(m.err, m.key, plain, TRUE)
                 IN  merged(afMerge(plain, keyslot.KeySize, AreaStripes, af.Hash))
        \* keyData after d.f.ReadAt(keyData, keyslotOffset)
        decrypt(rd) ==
            IF rd.err # "nil" THEN keyResult(rd.err, << >>, rd.bytes, TRUE)
            ELSE IF buildLuks2AfCipher(area.Encryption, afKey) # "nil"
            THEN keyResult(buildLuks2AfCipher(area.Encryption, afKey), << >>, rd.bytes, TRUE)
            ELSE merge(decryptSectors(afKey, rd.bytes, keyslot.KeySize, 0))
    IN  IF areaSize.err # "nil" THEN keyResult("Invalid keyslot size value", << >>, << >>, FALSE)
        ELSE IF keyslotSize > areaSize.v
        THEN keyResult("keyslot area size too small", << >>, << >>, FALSE)
        ELSE IF keyslotSize % storageSectorSize # 0
        THEN keyResult("keyslot size is not multiple of the sector size", << >>, << >>, FALSE)
        \* keyData := make([]byte, keyslotSize); defer clearSlice(keyData)
        ELSE IF keyslotOffset.err # "nil"
        THEN keyResult("Invalid keyslot offset", << >>, MakeBytes(Represented(keyslotSize)), FALSE)
        ELSE IF keyslotOffset.v % storageSectorSize # 0
        THEN keyResult("keyslot offset is not aligned to sector size", << >>,
                       MakeBytes(Represented(keyslotSize)), FALSE)
        ELSE decrypt(ReadAt(f, keyslotSize, keyslotOffset.v))

\* a mutant of findDigestForKeyslot: the first digest visited, whatever it lists
findDigestForKeyslot_first(meta, keyslotIdx, order) ==
    IF Len(order) = 0 THEN -1 ELSE order[1]

\* (*deviceV2).findDigestForKeyslot(keyslotIdx): the id of the first digest, in the
\* order the range over d.meta.Digests visits them, that lists the keyslot; -1 for nil
findDigestForKeyslot(meta, keyslotIdx, order) ==
    LET lists(id) == \E i \in DOMAIN meta.Digests[id].Keyslots :
                        LET k == ParseInt(meta.Digests[id].Keyslots[i])
                        IN  k.err = "nil" /\ k.v = keyslotIdx
        hits == {i \in DOMAIN order : lists(order[i])}
    IN  IF hits = {} THEN -1 ELSE order[CHOOSE i \in hits : \A j \in hits : i <= j]

\* computeDigestForKey(dig, keyslotIdx, finalKey): [err, digest]
computeDigestForKey(dig, finalKey) ==
    LET digSalt == base64Decode(dig.Salt)
    IN  IF digSalt.err # "nil" THEN [err |-> "digest.salt base64 parsing failed", digest |-> << >>]
        ELSE IF dig.Type = "pbkdf2"
        THEN IF getHashAlgo(dig.Hash) = 0
             THEN [err |-> "Unknown digest hash algorithm", digest |-> << >>]
             ELSE [err |-> "nil",
                   digest |-> pbkdf2Key(finalKey, digSalt.bytes, dig.Iterations,
                                        getHashAlgo(dig.Hash), dig.Hash)]
        ELSE [err |-> "Unknown digest kdf type", digest |-> << >>]

\* (*deviceV2).UnsealVolume, from the digest verification on (the AF key and the
\* candidate key are in hand): the fields of the result it decides
verifyAndDescribe(d, f, flags, keyslotIdx, finalKey, digOrder) ==
    LET \* a return with error err and Volume vol (<< >> for nil), after digest digId
        \* was found, generated was computed (defer clearSlice(generatedDigest)) and
        \* expected was decoded
        return(err, vol, digId, generated, expected) ==
            [NoUnseal EXCEPT !.err = err, !.vol = vol,
                             !.finalKey = finalKey, !.madeFinalKey = finalKey,
                             !.digestUsed = digId, !.madeDigest = generated,
                             !.generatedDigest = clearSlice(generated),
                             !.expectedDigest = expected]
        describe(digId, generated, expected, storageSegment) ==
            LET offset == ParseInt(storageSegment.Offset)
                fsz == fileSize(f)
                size == ParseInt(storageSegment.Size)
                ivTweak == ParseInt(storageSegment.IvTweak)
                isDynamic == storageSegment.Size = dynamic
                fail(err) == return(err, << >>, digId, generated, expected)
            IN  IF offset.err # "nil" THEN fail(offset.err)
                ELSE IF isDynamic /\ fsz.err # "nil" THEN fail(fsz.err)
                ELSE IF isDynamic /\ ult(fsz.size, uint64(offset.v))
                THEN fail("backing file size is smaller than LUKS segment offset")
                ELSE IF ~isDynamic /\ size.err # "nil" THEN fail(size.err)
                ELSE IF ~isDynamic /\ size.v = 0 THEN fail("invalid segment size")
                ELSE IF ivTweak.err # "nil" THEN fail(ivTweak.err)
                ELSE return("nil",
                            << [BackingDevice |-> d.path,
                                Flags |-> flags,
                                UUID |-> d.UUID,
                                key |-> finalKey,
                                LuksType |-> "LUKS2",
                                StorageSize |-> IF isDynamic THEN fsz.size - uint64(offset.v)
                                                ELSE uint64(size.v),
                                StorageOffset |-> uint64(offset.v),
                                StorageEncryption |-> storageSegment.Encryption,
                                StorageIvTweak |-> uint64(ivTweak.v),
                                StorageSectorSize |-> storageSegment.SectorSize] >>,
                            digId, generated, expected)
        compare(digId, digest, generated, expectedDigest) ==
            LET seg == IF Len(digest.Segments) = 1 THEN ParseInt(digest.Segments[1])
                       ELSE [err |-> "nil", v |-> 0]
                \* once bytes.Equal returned same
                compared(same) ==
                    [(IF ~same.eq
                      THEN return("ErrPassphraseDoesNotMatch", << >>, digId, generated,
                                  expectedDigest.bytes)
                      ELSE IF Len(digest.Segments) # 1
                      THEN return("LUKS partition expects exactly 1 storage segment", << >>,
                                  digId, generated, expectedDigest.bytes)
                      ELSE IF seg.err # "nil"
                      THEN return(seg.err, << >>, digId, generated, expectedDigest.bytes)
                      ELSE describe(digId, generated, expectedDigest.bytes,
                                    IF seg.v \in DOMAIN d.meta.Segments
                                    THEN d.meta.Segments[seg.v] ELSE ZeroSegment))
                     EXCEPT !.compared = same.examined]
            IN  IF expectedDigest.err # "nil"
                THEN return("digest.Digest base64 parsing failed", << >>, digId, generated, << >>)
                ELSE IF Len(expectedDigest.bytes) > Len(generated)
                THEN return("panic: slice bounds out of range", << >>, digId, generated,
                            expectedDigest.bytes)
                ELSE compared(bytesEqual(SubSeq(generated, 1, Len(expectedDigest.bytes)),
                                         expectedDigest.bytes))
        verify(digId, digest, gen) ==
            IF gen.err # "nil" THEN return(gen.err, << >>, digId, << >>, << >>)
            ELSE compare(digId, digest, gen.digest, base64Decode(digest.Digest))
        found(digId) ==
            IF digId = -1 THEN return("No digest is found for keyslot", << >>, -1, << >>, << >>)
            ELSE verify(digId, d.meta.Digests[digId],
                        computeDigestForKey(d.meta.Digests[digId], finalKey))
    IN  found(findDigestForKeyslot(d.meta, keyslotIdx, digOrder))

\* the result of UnsealVolume with what it did before the verification: the AF key
\* (defer clearSlice(afKey)) and what decryptLuks2VolumeKey / decryptLuks1VolumeKey left
withKeyBuffers(rest, afKey, dk) ==
    [rest EXCEPT !.kdfRan = TRUE, !.madeAfKey = afKey, !.afKey = clearSlice(afKey),
                 !.areaRead = dk.areaRead, !.madeKeyData = dk.madeKeyData,
                 !.keyData = dk.keyData]

\* (*deviceV2).UnsealVolume once the keyslot is found in d.meta.Keyslots
unsealKeyslot(d, f, flags, keyslotIdx, passphrase, digOrder) ==
    LET keyslot == d.meta.Keyslots[keyslotIdx]
        decrypted(afKey, dk) ==
            IF dk.err # "nil"
            THEN withKeyBuffers([NoUnseal EXCEPT !.err = dk.err], afKey, dk)
            ELSE withKeyBuffers(verifyAndDescribe(d, f, flags, keyslotIdx, dk.key, digOrder),
                                afKey, dk)
        derived(k) ==
            IF k.err # "nil" THEN [NoUnseal EXCEPT !.err = k.err]
            ELSE decrypted(k.key, decryptLuks2VolumeKey(f, keyslot, k.key))
    IN  derived(deriveLuks2AfKey(keyslot.Kdf, passphrase, keyslot.Area.KeySize))

\* a mutant of UnsealVolume: the lookup's ok is ignored, and a missing keyslot is
\* reported as a passphrase mismatch after the KDF has run
deviceV2_UnsealVolume_noLookup(d, f, flags, keyslotIdx, passphrase, digOrder) ==
    IF keyslotIdx \notin DOMAIN d.meta.Keyslots
    THEN [NoUnseal EXCEPT !.err = "ErrPassphraseDoesNotMatch", !.kdfRan = TRUE]
    ELSE unsealKeyslot(d, f, flags, keyslotIdx, passphrase, digOrder)

\* (*deviceV2).UnsealVolume(keyslotIdx, passphrase); digOrder is the order in which
\* the range over d.meta.Digests visits the digests in this call
deviceV2_UnsealVolume(d, f, flags, keyslotIdx, passphrase, digOrder) ==
    IF keyslotIdx \notin DOMAIN d.meta.Keyslots
    THEN [NoUnseal EXCEPT !.err = "Unable to get a keyslot with id"]
    ELSE unsealKeyslot(d, f, flags, keyslotIdx, passphrase, digOrder)

\* a mutant of Slots: every priority other than 2 counts as normal
deviceV2_Slots_elseNormal(d, order) ==
    LET prio(i) == d.meta.Keyslots[i].Priority
    IN  SelectIn(order, {i \in DOMAIN d.meta.Keyslots : prio(i) = << 2 >>})
            \o SelectIn(order, {i \in DOMAIN d.meta.Keyslots : prio(i) # << 2 >>})

\* the possible results of (*deviceV2).Slots(): the keys of d.meta.Keyslots in the
\* order the range visits them, filtered in two passes of one loop
deviceV2_Slots(d, order) ==
    LET prio(i) == d.meta.Keyslots[i].Priority
        highPrio == SelectIn(order, {i \in DOMAIN d.meta.Keyslots : prio(i) = << 2 >>})
        normPrio == SelectIn(order, {i \in DOMAIN d.meta.Keyslots :
                                        prio(i) = << >> \/ prio(i) = << 1 >>})
    IN  highPrio \o normPrio

\* what one Device operation leaves behind for its caller: the error it returned,
\* the UnsealVolume calls it made in order (calls[i] = [slot, r]), the list Slots()
\* gave it, what SetupMapper returned ("none" when not run), and the contents at
\* return of the master-key buffer of each Volume it obtained
NoRet ==
    [op |-> "none", slot |-> -1, pass |-> << >>, err |-> "nil", calls |-> << >>,
     slots |-> << >>, mapper |-> "none", volKeys |-> << >>, value |-> << >>]

\* Unlock and UnlockAny return what SetupMapper returns, which depends on what
\* devmapper.CreateAndLoad returns: their results are given for each such outcome dm

\* (*deviceV2).Unlock / (*deviceV1).Unlock, given the result r of their UnsealVolume
UnlockWith(r, keyslot, passphrase) ==
    LET base == [NoRet EXCEPT !.op = "Unlock", !.slot = keyslot, !.pass = passphrase,
                              !.calls = << [slot |-> keyslot, r |-> r] >>]
    IN  [dm \in DmOutcomes |->
            IF r.err # "nil" THEN [base EXCEPT !.err = r.err]
            ELSE
            \* defer clearSlice(volume.key)
            LET m == SetupMapper(r.vol[1], dm)
            IN  [base EXCEPT !.err = m, !.mapper = m,
                             !.volKeys = << clearSlice(r.vol[1].key) >>]]

deviceV2_Unlock(d, f, flags, keyslot, passphrase, digOrder) ==
    UnlockWith(deviceV2_UnsealVolume(d, f, flags, keyslot, passphrase, digOrder),
               keyslot, passphrase)

\* the end of the loop body of UnlockAny once UnsealVolume gave a Volume
UnlockAnyWith(base, made, r) ==
    [dm \in DmOutcomes |->
        LET m == SetupMapper(r.vol[1], dm)
        IN  [base EXCEPT !.err = m, !.mapper = m, !.calls = made,
                         !.volKeys = << r.vol[1].key >>]]

\* a mutant of the loop of UnlockAny: a mismatch returns instead of continuing
deviceV2_UnlockAnyFrom_stopOnMismatch(d, f, flags, slots, i, passphrase, digOrder, calls) ==
    LET base == [NoRet EXCEPT !.op = "UnlockAny", !.pass = passphrase, !.slots = slots]
        body(r) ==
            IF r.err # "nil"
            THEN [dm \in DmOutcomes |->
                    [base EXCEPT !.err = r.err,
                                 !.calls = Append(calls, [slot |-> slots[i], r |-> r])]]
            ELSE UnlockAnyWith(base, Append(calls, [slot |-> slots[i], r |-> r]), r)
    IN  IF i > Len(slots)
        THEN [dm \in DmOutcomes |->
                [base EXCEPT !.err = "ErrPassphraseDoesNotMatch", !.calls = calls]]
        ELSE body(deviceV2_UnsealVolume(d, f, flags, slots[i], passphrase, digOrder))

RECURSIVE deviceV2_UnlockAnyFrom(_, _, _, _, _, _, _, _)
\* the loop of (*deviceV2).UnlockAny from position i of the list slots
deviceV2_UnlockAnyFrom(d, f, flags, slots, i, passphrase, digOrder, calls) ==
    LET base == [NoRet EXCEPT !.op = "UnlockAny", !.pass = passphrase, !.slots = slots]
        \* the loop body once UnsealVolume returned r; made: the calls so far
        decide(r, made) ==
            IF r.err = "ErrPassphraseDoesNotMatch"
            THEN deviceV2_UnlockAnyFrom(d, f, flags, slots, i + 1, passphrase, digOrder, made)
            ELSE IF r.err # "nil"
            THEN [dm \in DmOutcomes |-> [base EXCEPT !.err = r.err, !.calls = made]]
            ELSE UnlockAnyWith(base, made, r)
        body(r) == decide(r, Append(calls, [slot |-> slots[i], r |-> r]))
    IN  IF i > Len(slots)
        THEN [dm \in DmOutcomes |->
                [base EXCEPT !.err = "ErrPassphraseDoesNotMatch", !.calls = calls]]
        ELSE body(deviceV2_UnsealVolume(d, f, flags, slots[i], passphrase, digOrder))

\* (*deviceV2).UnlockAny(passphrase, dmName); order is the order of the range in Slots()
deviceV2_UnlockAny(d, f, flags, passphrase, order, digOrder) ==
    deviceV2_UnlockAnyFrom(d, f, flags, deviceV2_Slots(d, order), 1, passphrase, digOrder, << >>)

(* ------------------------------ luks1.go ------------------------------ *)

\* (*deviceV1).Slots()
\* a mutant of Slots: every keyslot from id on, enabled or not
deviceV1_SlotsFrom_all(d, id) == SortedSeq(id..(luksV1NumSlots - 1))

RECURSIVE deviceV1_SlotsFrom(_, _)
deviceV1_SlotsFrom(d, id) ==
    IF id >= luksV1NumSlots THEN << >>
    ELSE (IF d.hdr.KeySlots[id].Active # luksV1SlotEnabled THEN << >> ELSE << id >>)
            \o deviceV1_SlotsFrom(d, id + 1)

deviceV1_Slots(d) == deviceV1_SlotsFrom(d, 0)

\* a mutant of deriveLuks1AfKey: the key does not depend on the passphrase
deriveLuks1AfKey_noPassphrase(passphrase, slot, keySize, h) ==
    pbkdf2Key(<< 1 >>, slot.Salt, slot.Iterations, keySize, h)

\* deriveLuks1AfKey(passphrase, slot, keySize, h)
deriveLuks1AfKey(passphrase, slot, keySize, h) ==
    pbkdf2Key(passphrase, slot.Salt, slot.Iterations, keySize, h)

\* (*deviceV1).buildLuks1AfCipher(afKey): the error, "nil" when the cipher is built
buildLuks1AfCipher(d, afKey) ==
    IF ~getCipher(d.hdr.CipherName) THEN "Unknown cipher"
    ELSE IF d.hdr.CipherMode # << "xts", "plain64" >> THEN "Unknown encryption mode"
    ELSE IF ~xtsNewCipherOk(afKey) THEN "xts: invalid key"
    ELSE "nil"

\* (*deviceV1).decryptLuks1VolumeKey(keyslotIdx, slot, afKey, h):
\* [err, key, keyData, madeKeyData, areaRead]
decryptLuks1VolumeKey(d, f, slot, afKey, h) ==
    LET keyslotSize == d.hdr.KeyBytes * stripesNum
        \* keyData after the decryption loop
        merge(plain) ==
            IF slot.Stripes # stripesNum
            THEN keyResult("LUKS currently supports only af with 4000 stripes", << >>, plain, TRUE)
            ELSE LET merged(m) == keyResult(m.err, m.key, plain, TRUE)
                 IN  merged(afMerge(plain, d.hdr.KeyBytes, AreaStripes, h))
        \* keyData after d.f.ReadAt(keyData, offset)
        decrypt(rd) ==
            IF rd.err # "nil" THEN keyResult(rd.err, << >>, rd.bytes, TRUE)
            ELSE IF buildLuks1AfCipher(d, afKey) # "nil"
            THEN keyResult(buildLuks1AfCipher(d, afKey), << >>, rd.bytes, TRUE)
            ELSE merge(decryptSectors(afKey, rd.bytes, d.hdr.KeyBytes, 0))
    IN  IF keyslotSize % storageSectorSize # 0
        THEN keyResult("keyslot size is not multiple of the sector size", << >>, << >>, FALSE)
        \* keyData := make([]byte, keyslotSize); defer clearSlice(keyData)
        ELSE decrypt(ReadAt(f, keyslotSize, slot.KeyMaterialOffset * storageSectorSize))

\* the capacity of the slice pbkdf2.Key returns: whole blocks of the hash
pbkdf2Cap(keyLen, h) == ((keyLen + getHashAlgo(h) - 1) \div getHashAlgo(h)) * getHashAlgo(h)

\* (*deviceV1).UnsealVolume(keyslotIdx, passphrase)
deviceV1_UnsealVolume(d, f, flags, keyslotIdx, passphrase) ==
    LET algo == d.hdr.HashSpec
        storageOffset == d.hdr.PayloadOffset * storageSectorSize
        fsz == fileSize(f)
        \* a return with error err and Volume vol (<< >> for nil) after
        \* generatedDigest was computed (defer clearSlice(generatedDigest))
        return(err, vol, finalKey, generatedDigest) ==
            [NoUnseal EXCEPT !.err = err, !.vol = vol,
                             !.finalKey = finalKey, !.madeFinalKey = finalKey,
                             !.madeDigest = generatedDigest,
                             !.generatedDigest = clearSlice(generatedDigest),
                             !.expectedDigest = d.hdr.MkDigest]
        described(finalKey, generatedDigest) ==
            IF fsz.err # "nil" THEN return(fsz.err, << >>, finalKey, generatedDigest)
            ELSE IF fsz.size < storageOffset
            THEN return("backing file size is smaller than LUKS segment offset", << >>,
                        finalKey, generatedDigest)
            ELSE return("nil",
                        << [BackingDevice |-> d.path,
                            Flags |-> flags,
                            UUID |-> d.UUID,
                            key |-> finalKey,
                            LuksType |-> "LUKS1",
                            StorageSize |-> fsz.size - storageOffset,
                            StorageOffset |-> storageOffset,
                            StorageEncryption |-> << d.hdr.CipherName >> \o d.hdr.CipherMode,
                            StorageIvTweak |-> 0,
                            StorageSectorSize |-> storageSectorSize] >>,
                        finalKey, generatedDigest)
        \* once bytes.Equal(generatedDigest[:20], d.hdr.MkDigest[:]) returned same
        compared(finalKey, generatedDigest, same) ==
            [(IF ~same.eq
              THEN return("ErrPassphraseDoesNotMatch", << >>, finalKey, generatedDigest)
              ELSE described(finalKey, generatedDigest))
             EXCEPT !.compared = same.examined]
        \* generatedDigest[:20] reads up to the capacity of the slice, which holds
        \* the digest PBKDF2 computed in whole hash blocks
        verify(finalKey, generatedDigest, upToCap) ==
            IF Len(upToCap) < 20
            THEN return("panic: slice bounds out of range", << >>, finalKey, generatedDigest)
            ELSE compared(finalKey, generatedDigest,
                          bytesEqual(SubSeq(upToCap, 1, 20), d.hdr.MkDigest))
        digest(finalKey, upToCap) ==
            verify(finalKey, SubSeq(upToCap, 1, d.hdr.KeyBytes), upToCap)
        decrypted(afKey, dk) ==
            IF dk.err # "nil"
            THEN withKeyBuffers([NoUnseal EXCEPT !.err = dk.err], afKey, dk)
            ELSE withKeyBuffers(
                    digest(dk.key, pbkdf2Key(dk.key, d.hdr.MkDigestSalt, d.hdr.MkDigestIter,
                                             pbkdf2Cap(d.hdr.KeyBytes, algo), algo)),
                    afKey, dk)
        derived(slot, afKey) == decrypted(afKey, decryptLuks1VolumeKey(d, f, slot, afKey, algo))
    IN  IF keyslotIdx < 0 \/ keyslotIdx >= luksV1NumSlots
        THEN [NoUnseal EXCEPT !.err = "keyslot is out of range of available slots"]
        ELSE IF getHashAlgo(algo) = 0
        THEN [NoUnseal EXCEPT !.err = "Unknown hash spec algorithm"]
        \* defer clearSlice(afKey)
        ELSE derived(d.hdr.KeySlots[keyslotIdx],
                     deriveLuks1AfKey(passphrase, d.hdr.KeySlots[keyslotIdx], d.hdr.KeyBytes, algo))

deviceV1_Unlock(d, f, flags, keyslot, passphrase) ==
    UnlockWith(deviceV1_UnsealVolume(d, f, flags, keyslot, passphrase), keyslot, passphrase)

RECURSIVE deviceV1_UnlockAnyFrom(_, _, _, _, _, _)
\* the loop of (*deviceV1).UnlockAny over d.hdr.KeySlots from index k
deviceV1_UnlockAnyFrom(d, f, flags, k, passphrase, calls) ==
    LET base == [NoRet EXCEPT !.op = "UnlockAny", !.pass = passphrase]
        \* the loop body once UnsealVolume returned r; made: the calls so far
        decide(r, made) ==
            IF r.err = "ErrPassphraseDoesNotMatch"
            THEN deviceV1_UnlockAnyFrom(d, f, flags, k + 1, passphrase, made)
            ELSE IF r.err # "nil"
            THEN [dm \in DmOutcomes |-> [base EXCEPT !.err = r.err, !.calls = made]]
            ELSE UnlockAnyWith(base, made, r)
        body(r) == decide(r, Append(calls, [slot |-> k, r |-> r]))
    IN  IF k >= luksV1NumSlots
        THEN [dm \in DmOutcomes |->
                [base EXCEPT !.err = "ErrPassphraseDoesNotMatch", !.calls = calls]]
        ELSE IF d.hdr.KeySlots[k].Active # luksV1SlotEnabled
        THEN deviceV1_UnlockAnyFrom(d, f, flags, k + 1, passphrase, calls)
        ELSE body(deviceV1_UnsealVolume(d, f, flags, k, passphrase))

\* (*deviceV1).UnlockAny(passphrase, dmName)
deviceV1_UnlockAny(d, f, flags, passphrase) ==
    deviceV1_UnlockAnyFrom(d, f, flags, 0, passphrase, << >>)

(* ------------------------------- luks.go ------------------------------ *)

\* The represented bytes of the header of a file, f.header: the 8 bytes of magic
\* and version, then for LUKS2 HeaderSize (4 bytes for 8), ChecksumAlgorithm
\* (8 bytes for 32), Checksum (64 bytes) and the JSON region (from offset 4096 in the
\* file).  What binary.Read and json.Unmarshal decode from the rest is f.decoded.

\* "LUKS\xba\xbe"
luksMagic == << 76, 85, 75, 83, 186, 190 >>

\* unsafe.Sizeof(headerV1), unsafe.Sizeof(headerV2)
headerV1Size == 592
headerV2Size == 512

\* the places of the LUKS2 header fields in the represented bytes
hdrSizeOffset == 8
checksumAlgorithmOffset == 12
checksumOffset == 20
checksumFieldSize == 64
jsonOffset == 84

\* the text of the JSON metadata, standing for the metadata f.decoded.meta
JsonText == << 123, 34, 107, 34, 58, 49, 125 >>

\* "sha256"
sha256Name == << 115, 104, 97, 50, 53, 54 >>

\* bytes.IndexByte(b, c): the index from 0 of the first c in b, -1 when there is none
IndexByte(b, c) ==
    IF \E i \in DOMAIN b : b[i] = c
    THEN (CHOOSE i \in DOMAIN b : b[i] = c /\ \A j \in 1..(i - 1) : b[j] # c) - 1
    ELSE -1

\* fixedArrayToString(buff): the bytes before the first NUL, all of them without one
fixedArrayToString(buff) ==
    IF IndexByte(buff, 0) # -1 THEN SubSeq(buff, 1, IndexByte(buff, 0)) ELSE buff

\* the big-endian number in 4 bytes
FromBE32(b) == ((b[1] * 256 + b[2]) * 256 + b[3]) * 256 + b[4]

RECURSIVE andBits(_, _)
\* a & b on naturals
andBits(a, b) ==
    IF a = 0 \/ b = 0 THEN 0
    ELSE 2 * andBits(a \div 2, b \div 2) + (IF a % 2 = 1 /\ b % 2 = 1 THEN 1 ELSE 0)

\* isPowerOfTwo(x) for the unsigned x: x - 1 wraps to all ones when x is 0
isPowerOfTwo(x) == IF x = 0 THEN TRUE ELSE andBits(x, x - 1) = 0

\* no device: what the caller holds when Open returned an error
NoDevice ==
    [version |-> 0, path |-> "", UUID |-> "", hdr |-> << >>,
     meta |-> [Keyslots |-> << >>, Segments |-> << >>, Digests |-> << >>,
               Tokens |-> << >>, Config |-> [Flags |-> << >>]]]

\* initV1Device(path, f): [err, dev]
initV1Device(path, f) ==
    \* binary.Read(f, binary.BigEndian, &hdr)
    IF f.size < headerV1Size THEN [err |-> "unexpected EOF", dev |-> NoDevice]
    ELSE [err |-> "nil",
          dev |-> [version |-> 1, path |-> path, UUID |-> f.decoded.UUID,
                   hdr |-> f.decoded.hdr, meta |-> NoDevice.meta]]

\* data with the 64 bytes of the checksum field set to 0
clearChecksum(data) ==
    AsSeq([i \in DOMAIN data |->
              IF i > checksumOffset /\ i <= checksumOffset + checksumFieldSize THEN 0
              ELSE data[i]])

\* json.Unmarshal(jsonData, &meta): [err, meta]
jsonUnmarshal(jsonData, f) ==
    IF jsonData = JsonText THEN [err |-> "nil", meta |-> f.decoded.meta]
    ELSE [err |-> "json: invalid character", meta |-> NoDevice.meta]

\* a mutant of the checksum comparison: the stored checksum is not looked at
checksumMatches_always(f, checksum) == TRUE

\* bytes.Equal(checksum, hdr.Checksum[:h.Size()])
checksumMatches(f, checksum) ==
    checksum = SubSeq(f.header, checksumOffset + 1, checksumOffset + getHashAlgo("sha256"))

\* initV2Device(path, f): [err, dev]
initV2Device(path, f) ==
    LET hdrSize == FromBE32(SubSeq(f.header, hdrSizeOffset + 1, hdrSizeOffset + 4))
        algo == fixedArrayToString(SubSeq(f.header, checksumAlgorithmOffset + 1,
                                          checksumAlgorithmOffset + 8))
        fail(err) == [err |-> err, dev |-> NoDevice]
        \* jsonData := data[4096:]; jsonData = jsonData[:bytes.IndexByte(jsonData, 0)]
        unmarshal(jsonData, end) ==
            IF end < 0 THEN fail("panic: slice bounds out of range")
            ELSE LET decode(m) ==
                        IF m.err # "nil" THEN fail(m.err)
                        ELSE [err |-> "nil",
                              dev |-> [version |-> 2, path |-> path,
                                       UUID |-> f.decoded.UUID, hdr |-> << >>,
                                       meta |-> m.meta]]
                 IN  decode(jsonUnmarshal(SubSeq(jsonData, 1, end), f))
        \* h.Write(data); checksum := h.Sum(make([]byte, 0))
        verify(data, checksum) ==
            IF ~checksumMatches(f, checksum) THEN fail("Invalid header checksum")
            ELSE unmarshal(SubSeq(data, jsonOffset + 1, Len(data)),
                           IndexByte(SubSeq(data, jsonOffset + 1, Len(data)), 0))
        hashed(data) == verify(data, HashSum("sha256", data))
    IN  \* binary.Read(f, binary.BigEndian, &hdr)
        IF f.size < headerV2Size THEN fail("unexpected EOF")
        ELSE IF ~isPowerOfTwo(hdrSize) \/ hdrSize < 16384 \/ hdrSize > 4194304
        THEN fail("Invalid size of LUKS header")
        \* f.ReadAt(data, 0)
        ELSE IF f.size < hdrSize THEN fail("EOF")
        ELSE IF algo # sha256Name THEN fail("Unknown header checksum algorithm")
        ELSE hashed(clearChecksum(f.header))

\* a mutant of Open: the magic is not compared
Open_anyMagic(path, f) ==
    LET version == f.header[7] * 256 + f.header[8]
        after(r) == [err |-> r.err, dev |-> r.dev, opened |-> TRUE]
    IN  IF ~f.exists
        THEN [err |-> "open: no such file or directory", dev |-> NoDevice, opened |-> FALSE]
        ELSE IF f.size < 8 THEN after([err |-> "EOF", dev |-> NoDevice])
        ELSE IF version = 1 THEN after(initV1Device(path, f))
        ELSE IF version = 2 THEN after(initV2Device(path, f))
        ELSE after([err |-> "invalid LUKS version", dev |-> NoDevice])

\* Open(path): [err, dev, opened]; opened: os.Open gave a file handle
Open(path, f) ==
    LET version == f.header[7] * 256 + f.header[8]
        after(r) == [err |-> r.err, dev |-> r.dev, opened |-> TRUE]
    IN  IF ~f.exists
        THEN [err |-> "open: no such file or directory", dev |-> NoDevice, opened |-> FALSE]
        \* f.ReadAt(header[:], 0)
        ELSE IF f.size < 8 THEN after([err |-> "EOF", dev |-> NoDevice])
        ELSE IF SubSeq(f.header, 1, 6) # luksMagic
        THEN after([err |-> "invalid LUKS header", dev |-> NoDevice])
        ELSE IF version = 1 THEN after(initV1Device(path, f))
        ELSE IF version = 2 THEN after(initV2Device(path, f))
        ELSE after([err |-> "invalid LUKS version", dev |-> NoDevice])

\* (*os.File).Close(): the error it returns
fileClose(closed) == IF closed THEN "file already closed" ELSE "nil"

(* ------------------------------- tokens ------------------------------- *)

\* the loop of (*deviceV2).Tokens over the token ids in the order the map range visits
\* them, from position k on
RECURSIVE deviceV2_TokensFrom(_, _, _, _)
deviceV2_TokensFrom(d, order, k, tokens) ==
    IF k > Len(order) THEN [err |-> "nil", tokens |-> tokens]
    ELSE LET i == order[k]
             t == d.meta.Tokens[i]
         IN  \* json.Unmarshal(t, &node)
             IF ~t.node.valid THEN [err |-> "json: cannot unmarshal", tokens |-> << >>]
             \* s.Int64() of each keyslot
             ELSE IF \E j \in DOMAIN t.node.Keyslots : ParseInt(t.node.Keyslots[j]).err # "nil"
             THEN [err |-> "invalid syntax", tokens |-> << >>]
             ELSE deviceV2_TokensFrom(d, order, k + 1,
                      Append(tokens,
                             [ID |-> i,
                              Slots |-> AsSeq([j \in DOMAIN t.node.Keyslots |->
                                                  ParseInt(t.node.Keyslots[j]).v]),
                              Type |-> t.node.Type,
                              Payload |-> t.raw]))

\* (*deviceV2).Tokens(): [err, tokens]
deviceV2_Tokens(d, order) == deviceV2_TokensFrom(d, order, 1, << >>)

\* "LUKSMETA"
luksMetaMagic == << 76, 85, 75, 83, 77, 69, 84, 65 >>
luksMetaNullUUID == MakeBytes(16)
clevisUUID ==
    << 203, 110, 137, 4, 129, 255, 64, 218, 168, 74, 7, 171, 154, 181, 113, 94 >>

\* unsafe.Sizeof(luksMetaHeader)
luksMetaHeaderSize == 272
\* unsafe.Offsetof(hdr.Crc32)
crcFieldOffset == 12

\* the zero value of luksMetaHeader, which a region of zero bytes decodes to
ZeroLuksMetaHeader ==
    [Magic |-> MakeBytes(8), Version |-> 0, Crc32 |-> 0,
     Slots |-> [i \in 0..(luksV1NumSlots - 1) |->
                  [UUID |-> luksMetaNullUUID, Offset |-> 0, Length |-> 0, Crc32 |-> 0]]]

RECURSIVE luksMetaSlotBytes(_, _)
\* the bytes of hdr.Slots[i..7] on disk, big endian
luksMetaSlotBytes(hdr, i) ==
    IF i >= luksV1NumSlots THEN << >>
    ELSE hdr.Slots[i].UUID \o BE32(hdr.Slots[i].Offset) \o BE32(hdr.Slots[i].Length)
            \o BE32(hdr.Slots[i].Crc32) \o MakeBytes(4) \o luksMetaSlotBytes(hdr, i + 1)

\* the bytes of a luksMetaHeader on disk, which binary.Read decodes
luksMetaBytes(hdr) ==
    hdr.Magic \o BE32(hdr.Version) \o BE32(hdr.Crc32) \o luksMetaSlotBytes(hdr, 0)

\* crc32 with the Castagnoli table: Write(data), Sum32()
crc32c(data) == WSum(data)

\* d.f.ReadAt(data, holeOffset) and binary.Read of it: [err, data, hdr]
readLuksMetaHeader(f, off) ==
    IF f.closed THEN [err |-> "file already closed", hdr |-> ZeroLuksMetaHeader]
    ELSE IF off + luksMetaHeaderSize > f.size THEN [err |-> "EOF", hdr |-> ZeroLuksMetaHeader]
    ELSE [err |-> "nil",
          hdr |-> IF f.luksmeta.offset = off THEN f.luksmeta.hdr ELSE ZeroLuksMetaHeader]

\* d.f.ReadAt(payload, off) for a payload of n bytes: [err, bytes]
readPayload(f, n, off) ==
    IF f.closed THEN [err |-> "file already closed", bytes |-> MakeBytes(n)]
    ELSE IF off + n > f.size THEN [err |-> "EOF", bytes |-> MakeBytes(n)]
    ELSE [err |-> "nil",
          bytes |-> IF off \in DOMAIN f.luksmeta.payloads
                    THEN Fit(f.luksmeta.payloads[off], n) ELSE MakeBytes(n)]

\* roundUp(n, divider)
roundUp(n, divider) == ((n + divider - 1) \div divider) * divider

RECURSIVE holeOffsetFrom(_, _, _)
\* the loop of (*deviceV1).Tokens that finds the end of the last key material
holeOffsetFrom(d, i, holeOffset) ==
    IF i >= luksV1NumSlots THEN holeOffset
    ELSE LET offset == d.hdr.KeySlots[i].KeyMaterialOffset * storageSectorSize
             length == d.hdr.KeyBytes * stripesNum
         IN  holeOffsetFrom(d, i + 1,
                            IF holeOffset < offset + length THEN offset + length
                            ELSE holeOffset)

\* luksMetaTokenType with the comparison taken out
luksMetaTokenType_never(uuid) == ""

\* luksMetaTokenType(uuid)
luksMetaTokenType(uuid) == IF uuid = clevisUUID THEN "clevis" ELSE ""

RECURSIVE deviceV1_TokensFrom(_, _, _, _, _, _)
\* the loop of (*deviceV1).Tokens over hdr.Slots from index i on
deviceV1_TokensFrom(d, f, hdr, holeOffset, i, tokens) ==
    IF i >= luksV1NumSlots THEN [err |-> "nil", tokens |-> tokens]
    ELSE IF hdr.Slots[i].UUID = luksMetaNullUUID
    THEN deviceV1_TokensFrom(d, f, hdr, holeOffset, i + 1, tokens)
    ELSE LET emit(payload) ==
                IF payload.err # "nil" THEN [err |-> payload.err, tokens |-> << >>]
                ELSE IF crc32c(payload.bytes) # hdr.Slots[i].Crc32
                THEN [err |-> "Luks Meta token CRC error", tokens |-> << >>]
                ELSE deviceV1_TokensFrom(d, f, hdr, holeOffset, i + 1,
                         Append(tokens,
                                [ID |-> i, Slots |-> << i >>,
                                 Type |-> luksMetaTokenType(hdr.Slots[i].UUID),
                                 Payload |-> payload.bytes]))
         IN  emit(readPayload(f, hdr.Slots[i].Length, holeOffset + hdr.Slots[i].Offset))

\* (*deviceV1).Tokens(): [err, tokens]
deviceV1_Tokens(d, f) ==
    LET parse(holeOffset, read) ==
            IF read.err # "nil" THEN [err |-> read.err, tokens |-> << >>]
            ELSE IF read.hdr.Magic # luksMetaMagic THEN [err |-> "nil", tokens |-> << >>]
            \* clearSlice(data[crcFieldOffset : crcFieldOffset+4])
            ELSE IF crc32c(luksMetaBytes([read.hdr EXCEPT !.Crc32 = 0])) # read.hdr.Crc32
            THEN [err |-> "Luks Meta header CRC error", tokens |-> << >>]
            ELSE deviceV1_TokensFrom(d, f, read.hdr, holeOffset, 0, << >>)
        at(holeOffset) == parse(holeOffset, readLuksMetaHeader(f, holeOffset))
    IN  at(roundUp(holeOffsetFrom(d, 0, 0), 4096))

(* ------------------- the images the devices are opened on -------------- *)

\* the passphrases the caller tries
Passphrases == {<< b >> : b \in 1..MaxPass}

\* the master key of the modelled volumes, keyBytes long
MasterKey(keyBytes) == AsSeq([i \in 1..keyBytes |-> (37 * i + 5) % 256])

\* the passphrase the formatter sealed keyslot i with
SlotPass(i) == << (i % MaxPass) + 1 >>

\* the salt of keyslot i
SlotSalt(i, n) == AsSeq([j \in 1..n |-> (i * 8 + j) % 256])

\* the stripes rand.Read drew when the keyslot area was written
RandomStripes(keyBytes) == AsSeq([j \in 1..((AreaStripes - 1) * keyBytes) |-> (13 * j + 7) % 256])

RECURSIVE encryptSectors(_, _, _, _)
\* what the formatter does to the split key: XTS encryption sector by sector
encryptSectors(afKey, keyData, blockSize, i) ==
    IF blockSize > 0 /\ (i + 1) * blockSize <= Len(keyData)
    THEN xtsEncrypt(afKey, SubSeq(keyData, i * blockSize + 1, (i + 1) * blockSize), i)
            \o encryptSectors(afKey, keyData, blockSize, i + 1)
    ELSE << >>

\* the bytes of a keyslot area that seals key under afKey
SealedArea(afKey, key, h) ==
    encryptSectors(afKey, afSplit(key, AreaStripes, h, RandomStripes(Len(key))), Len(key), 0)

FileSizeBytes == 25165824
ShortFileBytes == 65536

\* the path the device is opened at
DevicePath == "/dev/sda1"

\* the ways the first bytes of a modelled file depart from a LUKS header
HeaderVariants == {"noFile", "tinyFile", "magic", "version0", "version3", "truncated"}

\* the size of the file
ImageSize(variant, size) ==
    CASE variant = "tinyFile" -> 4
      [] variant = "truncated" -> 100
      [] variant = "hdrFileShort" -> 8192
      [] OTHER -> size

\* the 8 bytes of magic and version of a header of the given version
MagicAndVersion(version, variant) ==
    (IF variant = "magic" THEN << 76, 85, 75, 83, 186, 191 >> ELSE luksMagic)
        \o (CASE variant = "version0" -> << 0, 0 >>
              [] variant = "version3" -> << 0, 3 >>
              [] OTHER -> << 0, version >>)

\* ---- LUKS2 ----

V2KeyBytes == 32
V2SegmentOffset == 16777216
V2AreaBytes == 258048
V2AreaOffset(i) == 32768 + i * V2AreaBytes

\* the ways a modelled LUKS2 header departs from what luksFormat writes by default
V2Variants ==
    {"argon2i", "argon2id", "kdfSalt", "kdfType", "kdfHash", "areaSmall", "areaSizeText",
     "keySize", "offsetAlign", "offsetText", "shortFile", "cipherParts", "cipherName",
     "cipherMode", "afKeySize", "stripes", "afHash", "noDigest", "digestType",
     "digestHash", "digestSalt", "digestB64", "digestShort", "segments2", "segmentText",
     "segmentMissing", "segmentBeyond", "segmentNegative", "sizeZero", "sizeFixed",
     "sizeText", "sizeNegative", "sizeOdd", "ivTweakText", "sector4096",
     "hdrSize", "hdrSizeSmall", "hdrSizeLarge", "hdrFileShort", "csumAlgo", "csumBad",
     "csumTail", "noNul", "jsonBad", "tokens", "tokenSlotText", "tokenJson", "configFlags",
     "digests2", "digestEmpty", "digestLong"}
        \cup HeaderVariants

V2Kdf(i, variant) ==
    [Type |-> CASE variant = "argon2i" -> "argon2i"
                [] variant = "argon2id" -> "argon2id"
                [] variant = "kdfType" -> "scrypt"
                [] OTHER -> "pbkdf2",
     Salt |-> IF variant = "kdfSalt" THEN BadB64 ELSE B64(SlotSalt(i, 4)),
     Hash |-> IF variant = "kdfHash" THEN "sha1" ELSE "sha256",
     Iterations |-> 1000, Time |-> 4, Memory |-> 32, Cpus |-> 1]

V2Keyslot(i, priority, variant) ==
    [Type |-> "luks2",
     KeySize |-> IF variant = "keySize" THEN 33 ELSE V2KeyBytes,
     Af |-> [Type |-> "luks1",
             Stripes |-> IF variant = "stripes" THEN 2000 ELSE stripesNum,
             Hash |-> IF variant = "afHash" THEN "whirlpool" ELSE "sha256"],
     Area |-> [Type |-> "raw",
               Encryption |-> CASE variant = "cipherParts" -> << "aes", "xts" >>
                                [] variant = "cipherName" -> << "serpent", "xts", "plain64" >>
                                [] variant = "cipherMode" -> << "aes", "cbc", "essiv:sha256" >>
                                [] OTHER -> << "aes", "xts", "plain64" >>,
               KeySize |-> IF variant = "afKeySize" THEN 16 ELSE 32,
               Offset |-> CASE variant = "offsetAlign" -> Dec(V2AreaOffset(i) + 1)
                            [] variant = "offsetText" -> << "x" >>
                            [] OTHER -> Dec(V2AreaOffset(i)),
               Size |-> CASE variant = "areaSmall" -> Dec(4096)
                          [] variant = "areaSizeText" -> << >>
                          [] OTHER -> Dec(V2AreaBytes)],
     Kdf |-> V2Kdf(i, variant),
     Priority |-> priority]

V2DigestSalt == << 9, 8, 7, 6 >>

V2Digest(slots, variant) ==
    [Type |-> IF variant = "digestType" THEN "argon2id" ELSE "pbkdf2",
     Keyslots |-> IF variant = "noDigest" THEN << >> ELSE slots,
     Segments |-> CASE variant = "segments2" -> << Dec(0), Dec(1) >>
                    [] variant = "segmentText" -> << << "z" >> >>
                    [] variant = "segmentMissing" -> << Dec(5) >>
                    [] OTHER -> << Dec(0) >>,
     Hash |-> IF variant = "digestHash" THEN "md5" ELSE "sha256",
     Iterations |-> 1000,
     Salt |-> IF variant = "digestSalt" THEN BadB64 ELSE B64(V2DigestSalt),
     Digest |-> CASE variant = "digestB64" -> BadB64
                  [] variant = "digestEmpty" -> B64(<< >>)
                  [] variant = "digestLong" ->
                        B64(pbkdf2Key(MasterKey(V2KeyBytes), V2DigestSalt, 1000, 32, "sha256")
                                \o MakeBytes(8))
                  [] variant = "digestShort" ->
                        B64(SubSeq(pbkdf2Key(MasterKey(V2KeyBytes), V2DigestSalt, 1000, 32, "sha256"), 1, 20))
                  [] OTHER -> B64(pbkdf2Key(MasterKey(V2KeyBytes), V2DigestSalt, 1000, 32, "sha256"))]

V2Segment(variant) ==
    [Type |-> "crypt",
     Offset |-> CASE variant = "segmentBeyond" -> Dec(FileSizeBytes + 4096)
                  [] variant = "segmentNegative" -> << "-" >> \o Dec(4096)
                  [] OTHER -> Dec(V2SegmentOffset),
     IvTweak |-> IF variant = "ivTweakText" THEN << "t" >> ELSE Dec(0),
     Size |-> CASE variant = "sizeZero" -> Dec(0)
                [] variant = "sizeFixed" -> Dec(4194304)
                [] variant = "sizeText" -> << "1", "k" >>
                [] variant = "sizeNegative" -> << "-" >> \o Dec(512)
                [] variant = "sizeOdd" -> Dec(1000)
                [] OTHER -> dynamic,
     Encryption |-> << "aes", "xts", "plain64" >>,
     SectorSize |-> IF variant = "sector4096" THEN 4096 ELSE storageSectorSize]

\* an entry of the tokens map: its raw JSON text and what json.Unmarshal makes of it
V2Token(type, keyslots, raw) ==
    [raw |-> raw, node |-> [valid |-> TRUE, Type |-> type, Keyslots |-> keyslots]]

\* the tokens map of the metadata
V2Tokens(variant) ==
    CASE variant = "tokens" ->
            (0 :> V2Token("systemd-tpm2", << Dec(0), Dec(1) >>, << 123, 48, 125 >>))
            @@ (1 :> V2Token("clevis", << Dec(1) >>, << 123, 49, 125 >>))
      [] variant = "tokenSlotText" ->
            (0 :> V2Token("clevis", << << "x" >> >>, << 123, 120, 125 >>))
      [] variant = "tokenJson" ->
            (0 :> [raw |-> << 91, 93 >>,
                   node |-> [valid |-> FALSE, Type |-> "", Keyslots |-> << >>]])
      [] OTHER -> << >>

\* no LUKSMeta region in the file
NoLuksMeta == [offset |-> 0, hdr |-> ZeroLuksMetaHeader, payloads |-> << >>]

\* the LUKS2 device that Open returns on a header it accepts; its keyslots are the
\* domain of priority
V2Device(priority, variant) ==
    [version |-> 2, path |-> DevicePath, UUID |-> "uuid-2",
     hdr |-> << >>,
     meta |-> [Keyslots |-> [i \in DOMAIN priority |-> V2Keyslot(i, priority[i], variant)],
               Segments |-> IF variant = "digests2"
                            THEN (0 :> V2Segment(variant))
                                 @@ (1 :> [V2Segment(variant) EXCEPT
                                              !.Offset = Dec(V2SegmentOffset + 4096)])
                            ELSE (0 :> V2Segment(variant)),
               \* "digests2": a second digest of the same key lists the same keyslots
               \* and names segment 1, as a header under reencryption has it
               Digests |-> IF variant = "digests2"
                           THEN (0 :> V2Digest(DecAll(SortedSeq(DOMAIN priority)), variant))
                                @@ (1 :> [V2Digest(DecAll(SortedSeq(DOMAIN priority)), variant)
                                            EXCEPT !.Segments = << Dec(1) >>])
                           ELSE (0 :> V2Digest(DecAll(SortedSeq(DOMAIN priority)), variant)),
               Tokens |-> V2Tokens(variant),
               Config |-> [Flags |-> IF variant = "configFlags" THEN << "allow-discards" >>
                                    ELSE << >>]]]

V2HeaderSize(variant) ==
    CASE variant = "hdrSize" -> 24576
      [] variant = "hdrSizeSmall" -> 8192
      [] variant = "hdrSizeLarge" -> 8388608
      [] OTHER -> 16384

\* the represented bytes of a LUKS2 header that holds checksum
V2HeaderBytes(variant, checksum) ==
    MagicAndVersion(2, variant) \o BE32(V2HeaderSize(variant))
        \o Fit(IF variant = "csumAlgo" THEN << 115, 104, 97, 53, 49, 50 >> ELSE sha256Name, 8)
        \o Fit(checksum, checksumFieldSize)
        \o (CASE variant = "noNul" -> JsonText \o << 32, 32 >>
              [] variant = "jsonBad" -> << 123, 34, 0, 0 >>
              [] OTHER -> JsonText \o << 0, 0 >>)

\* the checksum the formatter stores: the hash of the header with the field zeroed
V2Checksum(variant) ==
    LET stored(sum) ==
            CASE variant = "csumBad" -> << (sum[1] + 1) % 256 >> \o Tail(sum)
              [] variant = "csumTail" -> sum \o << 255, 254, 253 >>
              [] OTHER -> sum
    IN  stored(HashSum("sha256", V2HeaderBytes(variant, << >>)))

\* the file a LUKS2 device is opened on: its size, its header, what the decoders
\* make of the header, and the keyslot areas by offset
V2File(d, variant) ==
    [exists |-> variant # "noFile",
     size |-> ImageSize(variant, IF variant = "shortFile" THEN ShortFileBytes
                                 ELSE FileSizeBytes),
     header |-> V2HeaderBytes(variant, V2Checksum(variant)),
     decoded |-> [UUID |-> d.UUID, hdr |-> d.hdr, meta |-> d.meta],
     areas |-> [off \in {V2AreaOffset(i) : i \in DOMAIN d.meta.Keyslots} |->
                   LET i == CHOOSE i \in DOMAIN d.meta.Keyslots : V2AreaOffset(i) = off
                       ks == d.meta.Keyslots[i]
                       kdf == IF ks.Kdf.Type \in {"argon2i", "argon2id"} THEN ks.Kdf
                              ELSE [ks.Kdf EXCEPT !.Type = "pbkdf2", !.Hash = "sha256",
                                                  !.Salt = B64(SlotSalt(i, 4))]
                   IN  SealedArea(deriveLuks2AfKey(kdf, SlotPass(i), 32).key,
                                  MasterKey(V2KeyBytes), "sha256")],
     luksmeta |-> NoLuksMeta]

\* Priority is a *int: << >> is nil (the field is absent), << p >> points to p
Priorities == {<< >>, << 0 >>, << 1 >>, << 2 >>}

V2Image(priority, variant) ==
    LET image(d) == [dev |-> d, file |-> V2File(d, variant)]
    IN  image(V2Device(priority, variant))

\* the LUKS2 images as luksFormat and luksAddKey leave them: keyslots 0..MaxSlot with
\* every priority, and the headers with a single keyslot or none
V2Formatted ==
    {V2Image(p, "none") :
        p \in [0..MaxSlot -> Priorities]
              \cup UNION {[{i} -> {<< >>}] : i \in 0..MaxSlot} \cup {<< >>}}

\* the modelled LUKS2 images: the formatted ones, and each variant on the header
\* with all keyslots at the default priority
V2Images == V2Formatted \cup {V2Image([i \in 0..MaxSlot |-> << >>], v) : v \in V2Variants}

\* ---- LUKS1 ----

V1KeyBytes == 32
V1PayloadOffset == 4096
V1KeyMaterialOffset(i) == 8 + 256 * i
V1DigestSalt == AsSeq([j \in 1..32 |-> (3 * j + 1) % 256])

\* the ways the LUKSMeta region of a modelled LUKS1 image is filled
MetaVariants == {"meta", "metaMagic", "metaHdrCrc", "metaSlotCrc", "metaPayloadEOF"}

\* the ways a modelled LUKS1 header departs from what luksFormat writes by default
V1Variants ==
    {"sha256", "hashSpec", "cipherName", "cipherMode", "keyBytes", "keyBytes16",
     "shortFile", "smallFile", "stripes", "staleSlot"} \cup MetaVariants
        \cup HeaderVariants

V1HashSpec(variant) ==
    CASE variant = "sha256" -> "sha256"
      [] variant = "hashSpec" -> "whirlpool"
      [] OTHER -> "sha1"

\* the hash the formatter used
V1FormatHash(variant) == IF variant = "sha256" THEN "sha256" ELSE "sha1"

\* keyslot i of a LUKS1 header; in the variant "staleSlot" keyslot 1 was disabled by
\* rewriting its Active field only, its salt and key material are still in place
V1KeySlot(i, enabled, variant) ==
    [Active |-> IF enabled /\ ~(variant = "staleSlot" /\ i = 1) THEN luksV1SlotEnabled
                ELSE 57005,
     Iterations |-> IF enabled THEN 1000 + i ELSE 0,
     Salt |-> IF enabled THEN SlotSalt(i, 32) ELSE MakeBytes(32),
     KeyMaterialOffset |-> V1KeyMaterialOffset(i),
     Stripes |-> IF variant = "stripes" THEN 2 ELSE stripesNum]

\* the LUKS1 device that Open returns on a header it accepts; its enabled keyslots
\* are E
V1Device(E, variant) ==
    [version |-> 1, path |-> DevicePath, UUID |-> "uuid-1",
     hdr |-> [CipherName |-> IF variant = "cipherName" THEN "serpent" ELSE "aes",
              CipherMode |-> IF variant = "cipherMode" THEN << "cbc", "essiv:sha256" >>
                             ELSE << "xts", "plain64" >>,
              HashSpec |-> V1HashSpec(variant),
              PayloadOffset |-> V1PayloadOffset,
              KeyBytes |-> CASE variant = "keyBytes" -> 33
                             [] variant = "keyBytes16" -> 16
                             [] OTHER -> V1KeyBytes,
              MkDigest |-> SubSeq(pbkdf2Key(MasterKey(V1KeyBytes), V1DigestSalt, 1000,
                                            pbkdf2Cap(V1KeyBytes, V1FormatHash(variant)),
                                            V1FormatHash(variant)), 1, 20),
              MkDigestSalt |-> V1DigestSalt,
              MkDigestIter |-> 1000,
              KeySlots |-> [i \in 0..(luksV1NumSlots - 1) |-> V1KeySlot(i, i \in E, variant)]],
     meta |-> [Keyslots |-> << >>, Segments |-> << >>, Digests |-> << >>,
               Tokens |-> << >>, Config |-> [Flags |-> << >>]]]

\* where luksmeta init puts its header: the first multiple of 4096 past the key
\* material of the last keyslot
V1HoleOffset == 1052672

\* the payloads luksmeta save stored in slots 3 and 6
V1Payload(i) == IF i = 3 THEN << 99, 108, 101, 118, 105 >> ELSE << 1, 2, 3 >>

\* slot i of the LUKSMeta header
V1MetaSlot(i, variant) ==
    IF i \notin {3, 6}
    THEN [UUID |-> luksMetaNullUUID, Offset |-> 0, Length |-> 0, Crc32 |-> 0]
    ELSE [UUID |-> IF i = 3 THEN clevisUUID ELSE AsSeq([j \in 1..16 |-> 16 + j]),
          Offset |-> IF variant = "metaPayloadEOF" /\ i = 6 THEN FileSizeBytes
                     ELSE 4096 * (i + 1),
          Length |-> Len(V1Payload(i)),
          Crc32 |-> IF variant = "metaSlotCrc" /\ i = 6 THEN crc32c(V1Payload(i)) + 1
                    ELSE crc32c(V1Payload(i))]

\* the LUKSMeta region of a LUKS1 image as luksmeta init and luksmeta save leave it
V1LuksMeta(variant) ==
    IF variant \notin MetaVariants THEN NoLuksMeta
    ELSE LET sealed(hdr) ==
                [hdr EXCEPT !.Crc32 = IF variant = "metaHdrCrc" THEN crc32c(luksMetaBytes(hdr)) + 1
                                      ELSE crc32c(luksMetaBytes(hdr))]
         IN  [offset |-> V1HoleOffset,
              hdr |-> sealed([Magic |-> IF variant = "metaMagic"
                                        THEN << 76, 85, 75, 83, 77, 69, 84, 66 >>
                                        ELSE luksMetaMagic,
                              Version |-> 1, Crc32 |-> 0,
                              Slots |-> [i \in 0..(luksV1NumSlots - 1) |->
                                            V1MetaSlot(i, variant)]]),
              payloads |-> [off \in {V1HoleOffset + 4096 * (i + 1) : i \in {3, 6}} |->
                               V1Payload((off - V1HoleOffset) \div 4096 - 1)]]

\* the file a LUKS1 device is opened on
V1File(d, E, variant) ==
    [exists |-> variant # "noFile",
     size |-> ImageSize(variant, CASE variant = "shortFile" -> 4096
                                   [] variant = "smallFile" -> 1048576
                                   [] OTHER -> FileSizeBytes),
     header |-> MagicAndVersion(1, variant),
     decoded |-> [UUID |-> d.UUID, hdr |-> d.hdr, meta |-> d.meta],
     areas |-> [off \in {V1KeyMaterialOffset(i) * storageSectorSize : i \in E} |->
                   LET i == CHOOSE i \in E : V1KeyMaterialOffset(i) * storageSectorSize = off
                   IN  SealedArea(deriveLuks1AfKey(SlotPass(i), d.hdr.KeySlots[i], V1KeyBytes,
                                                   V1FormatHash(variant)),
                                  MasterKey(V1KeyBytes), V1FormatHash(variant))],
     luksmeta |-> V1LuksMeta(variant)]

V1Image(E, variant) ==
    LET image(d) == [dev |-> d, file |-> V1File(d, E, variant)]
    IN  image(V1Device(E, variant))

\* the LUKS1 images as luksFormat and luksAddKey leave them: up to MaxEnabled enabled
\* keyslots among the first MaxEnabled + 1 and the last of the 8
V1Formatted ==
    {V1Image(E, "none") :
        E \in {S \in SUBSET ((0..MaxEnabled) \cup {luksV1NumSlots - 1}) :
                  Cardinality(S) <= MaxEnabled}}

\* the modelled LUKS1 images: the formatted ones, and each variant on the header
\* with keyslots 0 and 1 enabled
V1Images == V1Formatted \cup {V1Image({0, 1}, v) : v \in V1Variants}

(* --------------------------- the state machine ------------------------ *)

VARIABLES
    dev,    \* the Device the caller holds: version, path, UUID, LUKS1 header, LUKS2
            \* metadata; NoDevice before Open and when Open failed
    file,   \* the backing file: its size, its header and its keyslot areas
    flags,  \* the device's in-memory flags list
    handle, \* the file handle os.Open gave: "none", "open" or "closed"
    pc,     \* the caller: "start", "idle" with a Device, "returned" with the last
            \* operation's outcome in ret, "done" without a Device
    ret,    \* what the last operation left behind
    af      \* a run of the anti-forensic splitter on its own: its inputs, the split
            \* bytes and what merging them gave

vars == << dev, file, flags, handle, pc, ret, af >>

\* no run of the splitter
NoAf ==
    [pc |-> "none", src |-> << >>, blockNum |-> 0, h |-> "", rnd |-> << >>,
     dest |-> << >>, merged |-> [err |-> "nil", key |-> << >>]]

\* a file is at DevicePath, or none is
Init ==
    /\ \E img \in V1Images \cup V2Images : file = img.file
    /\ dev = NoDevice
    /\ flags = << >>
    /\ handle = "none"
    /\ pc = "start"
    /\ ret = NoRet
    /\ af = NoAf

\* d.f, the *os.File of the device
osFile ==
    [size |-> file.size, areas |-> file.areas, luksmeta |-> file.luksmeta,
     closed |-> handle = "closed"]

\* Open(path)
OpenDevice ==
    /\ pc = "start"
    /\ LET opened(r) ==
              /\ dev' = r.dev
              /\ flags' = r.dev.meta.Config.Flags
              /\ handle' = IF r.opened THEN "open" ELSE "none"
              /\ ret' = [NoRet EXCEPT !.op = "Open", !.err = r.err]
       IN  opened(Open(DevicePath, file))
    /\ pc' = "returned"
    /\ UNCHANGED << file, af >>

\* the keyslot indices the caller passes
SlotArgs == IF dev.version = 1 THEN (-1)..luksV1NumSlots ELSE 0..(MaxSlot + 1)

\* a mutant of Returned: the operation also empties the flags list of the Device
Returned_resetFlags(r) ==
    /\ pc' = "returned"
    /\ ret' = r
    /\ flags' = << >>
    /\ UNCHANGED << dev, file, handle, af >>

\* an operation that assigns to no field of the Device and writes nothing returns r
Returned(r) ==
    /\ pc' = "returned"
    /\ ret' = r
    /\ UNCHANGED << dev, file, flags, handle, af >>

\* Device.Version()
Version ==
    /\ pc = "idle"
    /\ Returned([NoRet EXCEPT !.op = "Version",
                              !.value = << IF dev.version = 1 THEN 1 ELSE 2 >>])

\* Device.Path()
Path ==
    /\ pc = "idle"
    /\ Returned([NoRet EXCEPT !.op = "Path", !.value = << dev.path >>])

\* Device.UUID()
UUID ==
    /\ pc = "idle"
    /\ Returned([NoRet EXCEPT !.op = "UUID", !.value = << dev.UUID >>])

\* Device.FlagsGet()
FlagsGet ==
    /\ pc = "idle"
    /\ Returned([NoRet EXCEPT !.op = "FlagsGet", !.value = << flags >>])

\* Device.Close()
Close ==
    /\ pc = "idle"
    /\ handle' = "closed"
    /\ pc' = "returned"
    /\ ret' = [NoRet EXCEPT !.op = "Close", !.err = fileClose(handle = "closed")]
    /\ UNCHANGED << dev, file, flags, af >>

\* Device.Slots()
Slots ==
    /\ pc = "idle"
    /\ \E order \in Orders(DOMAIN dev.meta.Keyslots) :
          Returned([NoRet EXCEPT !.op = "Slots",
                                 !.slots = IF dev.version = 1 THEN deviceV1_Slots(dev)
                                           ELSE deviceV2_Slots(dev, order)])

\* Device.Tokens()
Tokens ==
    /\ pc = "idle"
    /\ \E order \in Orders(DOMAIN dev.meta.Tokens) :
          LET returns(r) ==
                Returned([NoRet EXCEPT !.op = "Tokens", !.err = r.err,
                                       !.value = << r.tokens >>])
          IN  returns(IF dev.version = 1 THEN deviceV1_Tokens(dev, osFile)
                      ELSE deviceV2_Tokens(dev, order))

\* Device.UnsealVolume(keyslotIdx, passphrase)
UnsealVolume ==
    /\ pc = "idle"
    /\ \E keyslotIdx \in SlotArgs, passphrase \in Passphrases,
          digOrder \in Orders(DOMAIN dev.meta.Digests) :
          LET returns(r) ==
                Returned([NoRet EXCEPT !.op = "UnsealVolume", !.slot = keyslotIdx,
                                       !.pass = passphrase, !.err = r.err,
                                       !.calls = << [slot |-> keyslotIdx, r |-> r] >>,
                                       !.volKeys = IF r.err = "nil" THEN << r.vol[1].key >>
                                                   ELSE << >>])
          IN  returns(IF dev.version = 1
                      THEN deviceV1_UnsealVolume(dev, osFile, flags, keyslotIdx, passphrase)
                      ELSE deviceV2_UnsealVolume(dev, osFile, flags, keyslotIdx, passphrase,
                                                 digOrder))

\* Device.Unlock(keyslot, passphrase, dmName)
Unlock ==
    /\ pc = "idle"
    /\ \E keyslot \in SlotArgs, passphrase \in Passphrases,
          digOrder \in Orders(DOMAIN dev.meta.Digests) :
          LET out == IF dev.version = 1
                     THEN deviceV1_Unlock(dev, osFile, flags, keyslot, passphrase)
                     ELSE deviceV2_Unlock(dev, osFile, flags, keyslot, passphrase, digOrder)
          IN  \E dm \in DmOutcomes : Returned(out[dm])

\* Device.UnlockAny(passphrase, dmName)
UnlockAny ==
    /\ pc = "idle"
    /\ \E passphrase \in Passphrases, order \in Orders(DOMAIN dev.meta.Keyslots),
          digOrder \in Orders(DOMAIN dev.meta.Digests) :
          LET out == IF dev.version = 1
                     THEN deviceV1_UnlockAny(dev, osFile, flags, passphrase)
                     ELSE deviceV2_UnlockAny(dev, osFile, flags, passphrase, order, digOrder)
          IN  \E dm \in DmOutcomes : Returned(out[dm])

\* the flag names the caller passes: a known one and an unknown one
FlagArgs == {"allow-discards", "bogus"}

\* the argument lists of FlagsAdd(flags...): none, one or two names
FlagArgLists ==
    {<< >>} \cup {<< a >> : a \in FlagArgs} \cup {<< a, b >> : a, b \in FlagArgs}

\* a mutant of FlagsAdd: names outside flagsKernelNames are refused
deviceFlagsAdd_rejectUnknown(old, args) ==
    IF \E i \in DOMAIN args : args[i] \notin flagsKernelNames
    THEN [err |-> "unknown LUKS flag", flags |-> old]
    ELSE [err |-> "nil", flags |-> old \o args]

\* a mutant of FlagsAdd: the arguments are put in front of the list
deviceFlagsAdd_prepend(old, args) == [err |-> "nil", flags |-> args \o old]

\* (*deviceV2).FlagsAdd / (*deviceV1).FlagsAdd: d.flags = append(d.flags, flags...)
deviceFlagsAdd(old, args) == [err |-> "nil", flags |-> old \o args]

\* Device.FlagsAdd(flags...)
FlagsAdd ==
    /\ pc = "idle"
    /\ \E args \in FlagArgLists :
          /\ Len(flags) + Len(args) <= MaxFlags
          /\ LET added(r) ==
                    /\ flags' = r.flags
                    /\ ret' = [NoRet EXCEPT !.op = "FlagsAdd", !.err = r.err,
                                            !.value = << args >>]
             IN  added(deviceFlagsAdd(flags, args))
    /\ pc' = "returned"
    /\ UNCHANGED << dev, file, handle, af >>

\* Device.FlagsClear()
FlagsClear ==
    /\ pc = "idle"
    /\ flags' = << >>
    /\ pc' = "returned"
    /\ ret' = [NoRet EXCEPT !.op = "FlagsClear"]
    /\ UNCHANGED << dev, file, handle, af >>

\* the caller is done with what the operation returned and goes on
Continue ==
    /\ pc = "returned"
    /\ pc' = IF dev = NoDevice THEN "done" ELSE "idle"
    /\ ret' = NoRet
    /\ UNCHANGED << dev, file, flags, handle, af >>

Next ==
    \/ OpenDevice
    \/ Close
    \/ Version
    \/ Path
    \/ UUID
    \/ FlagsGet
    \/ Slots
    \/ Tokens
    \/ UnsealVolume
    \/ Unlock
    \/ UnlockAny
    \/ FlagsAdd
    \/ FlagsClear
    \/ Continue

Spec == Init /\ [][Next]_vars

(* ------------------ the anti-forensic splitter on its own ------------- *)

\* the lengths of the secrets split: shorter than every digest, equal to one, between
\* two, and not a multiple of any
AfLengths == {1, 5, 20, 32, 33, 64, 70}
\* the stripe counts run from 2 to AfMaxStripes
AfMaxStripes == 4
AfHashes == {"sha1", "sha256", "sha512", "ripemd160"}
\* the contents of a buffer: all zero, all ones, and two patterns
AfSeeds == 0..3

AfBytes(seed, n) ==
    AsSeq([j \in 1..n |-> CASE seed = 0 -> 0
                            [] seed = 1 -> 255
                            [] OTHER -> (37 * seed * j + 11 * seed) % 256])

\* no file at all
NoFile ==
    [exists |-> FALSE, size |-> 0, header |-> << >>,
     decoded |-> [UUID |-> "", hdr |-> << >>, meta |-> NoDevice.meta],
     areas |-> << >>, luksmeta |-> NoLuksMeta]

\* a secret, a stripe count, a hash and the bytes rand.Read will give
InitAf ==
    /\ \E n \in AfLengths, blockNum \in 2..AfMaxStripes, h \in AfHashes,
          seed \in AfSeeds, rseed \in AfSeeds :
          af = [NoAf EXCEPT !.pc = "input", !.src = AfBytes(seed, n), !.blockNum = blockNum,
                            !.h = h, !.rnd = AfBytes(rseed, (blockNum - 1) * n)]
    /\ dev = NoDevice
    /\ file = NoFile
    /\ flags = << >>
    /\ handle = "none"
    /\ pc = "done"
    /\ ret = NoRet

\* dest, err := afSplit(secret, stripes, hash)
AfSplit ==
    /\ af.pc = "input"
    /\ af' = [af EXCEPT !.pc = "split",
                        !.dest = afSplit(af.src, af.blockNum, af.h, af.rnd)]
    /\ UNCHANGED << dev, file, flags, handle, pc, ret >>

\* final, err := afMerge(dest, keySize, stripes, hash)
AfMerge ==
    /\ af.pc = "split"
    /\ af' = [af EXCEPT !.pc = "merged",
                        !.merged = afMerge(af.dest, Len(af.src), af.blockNum, af.h)]
    /\ UNCHANGED << dev, file, flags, handle, pc, ret >>

NextAf ==
    \/ AfSplit
    \/ AfMerge

SpecAf == InitAf /\ [][NextAf]_vars

(* ------------------------- isPowerOfTwo on its own --------------------- *)

\* the arguments isPowerOfTwo is called with: every number up to PowMax and the
\* header sizes of the modelled images
PowMax == 130
PowInputs == 0..PowMax \cup {8192, 16384, 24576, 4194304, 8388608}

\* a caller about to call isPowerOfTwo(x)
InitUtil ==
    /\ \E x \in PowInputs : ret = [NoRet EXCEPT !.op = "isPowerOfTwo", !.value = << x >>]
    /\ dev = NoDevice
    /\ file = NoFile
    /\ flags = << >>
    /\ handle = "none"
    /\ pc = "call"
    /\ af = NoAf

\* isPowerOfTwo(x)
IsPowerOfTwo ==
    /\ pc = "call"
    /\ pc' = "returned"
    /\ ret' = [ret EXCEPT !.value = Append(@, isPowerOfTwo(ret.value[1]))]
    /\ UNCHANGED << dev, file, flags, handle, af >>

NextUtil == IsPowerOfTwo

SpecUtil == InitUtil /\ [][NextUtil]_vars

(* ------------------------------ properties ---------------------------- *)

\* the keyslots the last operation passed to UnsealVolume, in order
AttemptedSlots == [i \in DOMAIN ret.calls |-> ret.calls[i].slot]

IsPrefix(s, t) == Len(s) <= Len(t) /\ SubSeq(t, 1, Len(s)) = s

\* the list UnlockAny walks: what Slots() gave it (LUKS2), the enabled entries of
\* the header's keyslot array (LUKS1)
UnlockAnySlots == IF dev.version = 1 THEN deviceV1_Slots(dev) ELSE ret.slots

\* the keyslot exists (LUKS2) or is enabled (LUKS1)
SlotPresent(k) ==
    IF dev.version = 1
    THEN k \in 0..(luksV1NumSlots - 1) /\ dev.hdr.KeySlots[k].Active = luksV1SlotEnabled
    ELSE k \in DOMAIN dev.meta.Keyslots

\* the device is open on an image as the formatter leaves it
WellFormed == handle = "open" /\ [dev |-> dev, file |-> file] \in V1Formatted \cup V2Formatted

\* the digest record lists the keyslot
DigestLists(id, k) ==
    /\ id \in DOMAIN dev.meta.Digests
    /\ \E i \in DOMAIN dev.meta.Digests[id].Keyslots :
          ParseInt(dev.meta.Digests[id].Keyslots[i]) = [err |-> "nil", v |-> k]

Priority(i) == dev.meta.Keyslots[i].Priority
HighSlots == {i \in DOMAIN dev.meta.Keyslots : Priority(i) = << 2 >>}
NormalSlots == {i \in DOMAIN dev.meta.Keyslots : Priority(i) \in {<< >>, << 1 >>}}
Positions(seq, x) == {i \in DOMAIN seq : seq[i] = x}

\* C1: UnlockAny tries the slots in the order of the list Slots() gave; after a
\* PassphraseDoesNotMatch it goes on to the next slot; any other error ends the loop
\* and is the result, with no further slot tried; the first success ends the loop
\* and its Volume is the one set up; when every slot mismatched, or there is none,
\* the result is PassphraseDoesNotMatch
C1_UnlockAnyOrder ==
    ret.op = "UnlockAny" =>
        LET n == Len(ret.calls)
        IN  /\ IsPrefix(AttemptedSlots, UnlockAnySlots)
            /\ \A i \in 1..(n - 1) : ret.calls[i].r.err = ErrPassphraseDoesNotMatch
            /\ \/ /\ n > 0
                  /\ ret.calls[n].r.err \notin {"nil", ErrPassphraseDoesNotMatch}
                  /\ ret.err = ret.calls[n].r.err
                  /\ ret.mapper = "none"
               \/ /\ n > 0
                  /\ ret.calls[n].r.err = "nil"
                  /\ ret.mapper # "none"
                  /\ ret.err = ret.mapper
                  /\ ret.volKeys = << ret.calls[n].r.vol[1].key >>
               \/ /\ n = 0 \/ ret.calls[n].r.err = ErrPassphraseDoesNotMatch
                  /\ n = Len(UnlockAnySlots)
                  /\ ret.err = ErrPassphraseDoesNotMatch
                  /\ ret.mapper = "none"

\* UnlockAny went past a mismatching slot and unlocked with the next one
C1_Witness ==
    /\ ret.op = "UnlockAny"
    /\ Len(ret.calls) = 2
    /\ ret.calls[1].r.err = ErrPassphraseDoesNotMatch
    /\ ret.calls[2].r.err = "nil"
    /\ ret.err = "nil"

\* C2: on a well-formed header, UnsealVolume of an existing (LUKS2) or enabled
\* (LUKS1) keyslot with a passphrase that is not the keyslot's returns exactly
\* ErrPassphraseDoesNotMatch and no Volume
C2_WrongPassphrase ==
    WellFormed =>
        \A i \in DOMAIN ret.calls :
            (SlotPresent(ret.calls[i].slot) /\ ret.pass # SlotPass(ret.calls[i].slot)) =>
                /\ ret.calls[i].r.err = ErrPassphraseDoesNotMatch
                /\ ret.calls[i].r.vol = << >>

\* UnsealVolume ran to the digest comparison with a wrong passphrase
C2_Witness ==
    /\ WellFormed
    /\ ret.op = "UnsealVolume"
    /\ SlotPresent(ret.slot)
    /\ ret.pass # SlotPass(ret.slot)
    /\ ret.calls[1].r.madeDigest # << >>
    /\ ret.err = ErrPassphraseDoesNotMatch

\* C3: LUKS2 UnsealVolume returns a Volume only when a digest record that lists the
\* keyslot was used, the stored digest decodes, and it equals the first
\* len(stored digest) bytes of the PBKDF2 digest of the candidate key; the Volume's
\* key is that candidate key
C3_VolumeOnlyOnDigestMatch ==
    dev.version = 2 =>
        \A i \in DOMAIN ret.calls :
            LET c == ret.calls[i]
            IN  c.r.vol # << >> =>
                    /\ DigestLists(c.r.digestUsed, c.slot)
                    /\ LET dig == dev.meta.Digests[c.r.digestUsed]
                           stored == base64Decode(dig.Digest)
                           salt == base64Decode(dig.Salt)
                           gen == pbkdf2Key(c.r.madeFinalKey, salt.bytes, dig.Iterations,
                                            getHashAlgo(dig.Hash), dig.Hash)
                       IN  /\ stored.err = "nil"
                           /\ dig.Type = "pbkdf2"
                           /\ Len(stored.bytes) <= Len(gen)
                           /\ SubSeq(gen, 1, Len(stored.bytes)) = stored.bytes
                    /\ c.r.vol[1].key = c.r.madeFinalKey
                    /\ c.r.err = "nil"

\* a LUKS2 Volume was returned after comparing a stored digest shorter than the
\* generated one
C3_Witness ==
    /\ dev.version = 2
    /\ ret.op = "UnsealVolume"
    /\ ret.calls[1].r.vol # << >>
    /\ Len(ret.calls[1].r.expectedDigest) > 0
    /\ Len(ret.calls[1].r.expectedDigest) < Len(ret.calls[1].r.madeDigest)

\* C4: the list LUKS2 Slots() returns holds no keyslot of priority 0, holds each
\* keyslot of priority 2, 1 or absent exactly once, and every priority-2 keyslot
\* comes before every keyslot of priority 1 or absent
C4_SlotsPriority ==
    (dev.version = 2 /\ ret.op \in {"Slots", "UnlockAny"}) =>
        /\ \A i \in DOMAIN dev.meta.Keyslots :
              Priority(i) = << 0 >> => Positions(ret.slots, i) = {}
        /\ \A i \in HighSlots \cup NormalSlots : Cardinality(Positions(ret.slots, i)) = 1
        /\ \A h \in HighSlots, n \in NormalSlots :
              \A ph \in Positions(ret.slots, h), pn \in Positions(ret.slots, n) : ph < pn

\* Slots() put a high-priority keyslot before a normal one with a smaller id
C4_Witness ==
    /\ dev.version = 2
    /\ ret.op = "Slots"
    /\ \E h \in HighSlots, n \in NormalSlots : n < h /\ ret.slots = << h, n >>

\* C5: LUKS2 Slots() gives the high-priority ids ascending, then the
\* normal-priority ids ascending (so every call gives the same list)
C5_SlotsAscending ==
    (dev.version = 2 /\ ret.op = "Slots") =>
        ret.slots = SortedSeq(HighSlots) \o SortedSeq(NormalSlots)

\* C6: LUKS1 Slots() is the ascending list of the indices of 0..7 whose entry is
\* active, and the keyslots UnlockAny attempts are that list, in that order, up to
\* the one that ends the loop
C6_Luks1Slots ==
    dev.version = 1 =>
        LET enabled == SortedSeq({i \in 0..(luksV1NumSlots - 1) :
                                    dev.hdr.KeySlots[i].Active = luksV1SlotEnabled})
        IN  /\ ret.op = "Slots" => ret.slots = enabled
            /\ ret.op = "UnlockAny" =>
                  /\ IsPrefix(AttemptedSlots, enabled)
                  /\ ret.err = ErrPassphraseDoesNotMatch => AttemptedSlots = enabled

\* LUKS1 UnlockAny went through two enabled keyslots, skipping a disabled keyslot 0
C6_Witness ==
    /\ dev.version = 1
    /\ ret.op = "UnlockAny"
    /\ dev.hdr.KeySlots[0].Active # luksV1SlotEnabled
    /\ Len(ret.calls) = 2
    /\ ret.err = ErrPassphraseDoesNotMatch

\* C7: when UnsealVolume returns, with a Volume or with any error, the AF key, the
\* keyslot-area buffer and the generated digest it allocated hold only zero bytes
C7_IntermediatesZeroed ==
    \A i \in DOMAIN ret.calls :
        LET r == ret.calls[i].r
        IN  /\ Len(r.afKey) = Len(r.madeAfKey) /\ IsZero(r.afKey)
            /\ Len(r.keyData) = Len(r.madeKeyData) /\ IsZero(r.keyData)
            /\ Len(r.generatedDigest) = Len(r.madeDigest) /\ IsZero(r.generatedDigest)

\* UnsealVolume returned an error after all three buffers had held non-zero bytes
C7_Witness ==
    /\ ret.op = "UnsealVolume"
    /\ ret.err = ErrPassphraseDoesNotMatch
    /\ ~IsZero(ret.calls[1].r.madeAfKey)
    /\ ~IsZero(ret.calls[1].r.madeKeyData)
    /\ ~IsZero(ret.calls[1].r.madeDigest)

\* C8: when UnsealVolume returns an error after the AF merge produced the candidate
\* master key, the candidate key buffer holds only zero bytes
C8_CandidateZeroedOnError ==
    \A i \in DOMAIN ret.calls :
        LET r == ret.calls[i].r
        IN  (r.err # "nil" /\ r.madeFinalKey # << >>) => IsZero(r.finalKey)

\* C9: when Unlock or UnlockAny returns, the key buffer of every Volume it obtained
\* from UnsealVolume holds only zero bytes
C9_VolumeKeyZeroedAtReturn ==
    ret.op \in {"Unlock", "UnlockAny"} =>
        \A i \in DOMAIN ret.volKeys : IsZero(ret.volKeys[i])

\* C10: LUKS2 UnsealVolume of a keyslot id that is not a key of the keyslots map
\* returns the no-such-keyslot error, not ErrPassphraseDoesNotMatch, and no Volume,
\* and neither runs the KDF nor reads the keyslot area
C10_NoSuchSlot ==
    dev.version = 2 =>
        \A i \in DOMAIN ret.calls :
            LET c == ret.calls[i]
            IN  c.slot \notin DOMAIN dev.meta.Keyslots =>
                    /\ c.r.err = "Unable to get a keyslot with id"
                    /\ c.r.err # ErrPassphraseDoesNotMatch
                    /\ c.r.vol = << >>
                    /\ ~c.r.kdfRan
                    /\ ~c.r.areaRead

\* UnsealVolume was asked for a missing keyslot of a LUKS2 header that has others
C10_Witness ==
    /\ dev.version = 2
    /\ ret.op = "UnsealVolume"
    /\ DOMAIN dev.meta.Keyslots # {}
    /\ ret.slot \notin DOMAIN dev.meta.Keyslots
    /\ ret.err = "Unable to get a keyslot with id"

\* C11: LUKS1 UnsealVolume of a keyslot index outside 0..7, or of a keyslot whose
\* Active field is not the enabled marker, returns a no-such-slot / slot-disabled
\* error (an error that is not ErrPassphraseDoesNotMatch) and no Volume, whatever
\* the passphrase
C11_Luks1SlotDisabled ==
    dev.version = 1 =>
        \A i \in DOMAIN ret.calls :
            LET c == ret.calls[i]
            IN  ~SlotPresent(c.slot) =>
                    /\ c.r.vol = << >>
                    /\ c.r.err \notin {"nil", ErrPassphraseDoesNotMatch}

\* the file is there and holds the 8 bytes Open reads first
HasFirstBytes == file.exists /\ file.size >= 8
\* the first 6 bytes of the file, and the big-endian number in the next two
FileMagic == SubSeq(file.header, 1, 6)
FileVersion == file.header[7] * 256 + file.header[8]

\* C12: the caller holds a Device only if the file begins with the LUKS magic and its
\* version field is 1 or 2, and Version() of that Device is the version field; Open
\* on another magic returns the invalid-header error, on another version the
\* invalid-version error, both without a Device
C12_OpenByMagicAndVersion ==
    /\ dev # NoDevice =>
          /\ HasFirstBytes
          /\ FileMagic = luksMagic
          /\ FileVersion \in {1, 2}
          /\ dev.version = FileVersion
    /\ ret.op = "Version" => ret.value = << FileVersion >>
    /\ (ret.op = "Open" /\ ret.err = "nil") => dev # NoDevice
    /\ (ret.op = "Open" /\ HasFirstBytes /\ FileMagic # luksMagic) =>
          ret.err = "invalid LUKS header" /\ dev = NoDevice
    /\ (ret.op = "Open" /\ HasFirstBytes /\ FileMagic = luksMagic /\ FileVersion \notin {1, 2}) =>
          ret.err = "invalid LUKS version" /\ dev = NoDevice

\* Version() was called on a Device opened on a version-2 header
C12_Witness ==
    /\ ret.op = "Version"
    /\ FileVersion = 2
    /\ ret.value = << 2 >>

\* the file holds a LUKS2 header: the magic and version 2
IsV2Header == HasFirstBytes /\ FileMagic = luksMagic /\ FileVersion = 2
\* the header bytes with the 64 bytes of the checksum field replaced by zeros
ZeroedHeader ==
    SubSeq(file.header, 1, checksumOffset) \o MakeBytes(checksumFieldSize)
        \o SubSeq(file.header, checksumOffset + checksumFieldSize + 1, Len(file.header))
StoredChecksum == SubSeq(file.header, checksumOffset + 1, checksumOffset + checksumFieldSize)
StoredAlgorithm ==
    fixedArrayToString(SubSeq(file.header, checksumAlgorithmOffset + 1, checksumOffset))
\* the stored checksum is the sha256 of the header with the checksum field zeroed
ChecksumValid ==
    /\ StoredAlgorithm = sha256Name
    /\ SubSeq(StoredChecksum, 1, 32) = HashSum("sha256", ZeroedHeader)

\* C13: a LUKS2 Device exists only for a header whose checksum algorithm is known and
\* whose stored checksum begins with the hash of the header with the checksum field
\* zeroed; Open on a LUKS2 header with another checksum or an unknown algorithm
\* returns an error and no Device
C13_HeaderChecksum ==
    /\ dev.version = 2 => IsV2Header /\ ChecksumValid
    /\ (ret.op = "Open" /\ IsV2Header /\ ~ChecksumValid) =>
          ret.err # "nil" /\ dev = NoDevice

\* Open accepted a LUKS2 header whose checksum field holds more than the 32 bytes
\* compared
C13_Witness ==
    /\ ret.op = "Open"
    /\ dev.version = 2
    /\ ~IsZero(SubSeq(StoredChecksum, 33, checksumFieldSize))

\* the errors that are a run-time panic of the Go program, not a returned error
Panics == {"panic: slice bounds out of range", "panic: integer divide by zero"}

\* C14: Open on a LUKS2 header with a valid checksum and no NUL byte in its JSON
\* region returns an error to the caller: it does not panic and gives no Device
C14_MissingNulIsAnError ==
    (/\ ret.op = "Open"
     /\ IsV2Header
     /\ ChecksumValid
     /\ \A i \in (jsonOffset + 1)..Len(file.header) : file.header[i] # 0) =>
        /\ ret.err # "nil"
        /\ ret.err \notin Panics
        /\ dev = NoDevice

\* the Volume the last UnsealVolume call of the returned operation gave, if any
LastCall == ret.calls[Len(ret.calls)]
GaveVolume == ret.calls # << >> /\ LastCall.r.err = "nil"
HasUnknownFlag(fl) == \E i \in DOMAIN fl : fl[i] \notin flagsKernelNames

\* a step of FlagsAdd returns no error and leaves the old list followed by its arguments
FlagsAddAppends ==
    (pc = "idle" /\ ret'.op = "FlagsAdd") =>
        /\ ret'.err = "nil"
        /\ flags' = flags \o ret'.value[1]

\* Unlock and UnlockAny run SetupMapper on a Volume carrying the flags of the Device;
\* with a name that has no kernel name it returns an error and makes no mapping
UnknownFlagRejectedByMapper ==
    (ret.op \in {"Unlock", "UnlockAny"} /\ GaveVolume) =>
        /\ LastCall.r.vol[1].Flags = flags
        /\ HasUnknownFlag(flags) =>
              ret.err = "unknown LUKS flag" /\ ret.mapper = "unknown LUKS flag"

\* C15: FlagsAdd never rejects its arguments: it appends them in order, duplicates and
\* unknown names included, and returns no error; an unknown name is rejected only when
\* SetupMapper runs on a Volume carrying it, which returns an error and makes no mapping
C15_FlagsAddNeverRejects == [][FlagsAddAppends]_vars /\ []UnknownFlagRejectedByMapper

\* Unlock obtained a Volume from a Device whose list holds the unknown name twice, and
\* SetupMapper refused it
C15_Witness ==
    /\ ret.op = "Unlock"
    /\ GaveVolume
    /\ flags = << "bogus", "bogus" >>
    /\ ret.err = "unknown LUKS flag"

ReadOnlyOps == {"Version", "Path", "UUID", "Slots", "Tokens", "FlagsGet", "UnsealVolume"}

\* what a step may change: never the image; in an operation on the Device never the
\* parsed header and metadata, the flags list only in FlagsAdd and FlagsClear, the
\* handle only in Close; nothing of the Device once the operation has returned
FrameOfStep ==
    /\ file' = file
    /\ pc = "idle" =>
          /\ dev' = dev
          /\ flags' # flags => ret'.op \in {"FlagsAdd", "FlagsClear"}
          /\ handle' # handle => ret'.op = "Close"
          /\ ret'.op \in ReadOnlyOps => flags' = flags /\ handle' = handle
    /\ pc = "returned" => dev' = dev /\ flags' = flags /\ handle' = handle

\* C16: over any sequence of Device operations only the flags list (by FlagsAdd and
\* FlagsClear) and the open/closed status of the handle (by Close) change; Version,
\* Path, UUID, Slots, Tokens, FlagsGet and UnsealVolume, succeeding or failing, leave
\* the flags list, the parsed header and metadata and the image bytes unchanged
C16_FrameOfDeviceOperations == [][FrameOfStep]_vars

\* UnsealVolume failed on a Device whose flags list is not empty
C16_Witness ==
    /\ ret.op = "UnsealVolume"
    /\ ret.err # "nil"
    /\ flags # << >>
    /\ dev # NoDevice

\* C17: for a secret of one byte or more, two stripes or more and any hash, digest
\* sizes that do not divide the length included, afSplit returns |s| * N bytes and
\* afMerge of them with the same length, stripe count and hash returns the secret,
\* whatever bytes rand.Read gave for the first N - 1 stripes
C17_AfRoundTrip ==
    /\ af.pc \in {"split", "merged"} =>
          /\ Len(af.dest) = Len(af.src) * af.blockNum
          /\ SubSeq(af.dest, 1, Len(af.rnd)) = af.rnd
    /\ af.pc = "merged" =>
          /\ af.merged.err = "nil"
          /\ af.merged.key = af.src

\* a secret of 33 bytes was split in 3 stripes with a 32-byte digest and merged, the
\* last stripe differing from the secret
C17_Witness ==
    /\ af.pc = "merged"
    /\ Len(af.src) = 33
    /\ af.blockNum = 3
    /\ getHashAlgo(af.h) = 32
    /\ SubSeq(af.dest, 67, 99) # af.src

\* a decimal number written with digits only
IsAllDigits(s) == Len(s) > 0 /\ \A i \in DOMAIN s : IsDigit(s[i])

\* the UnsealVolume calls of the returned operation that gave a Volume
VolumeCalls == {k \in DOMAIN ret.calls : ret.calls[k].r.err = "nil"}
\* the digest the k-th call verified the key with, and the segment it names
CallDigest(k) == dev.meta.Digests[ret.calls[k].r.digestUsed]
CallSegment(k) == dev.meta.Segments[DigitsVal(CallDigest(k).Segments[1])]

\* the Volume of a LUKS2 call describes segment seg of a file of fileBytes bytes
DescribesSegment(vol, seg, fileBytes) ==
    /\ vol.LuksType = "LUKS2"
    /\ IsAllDigits(seg.Offset) /\ IsAllDigits(seg.IvTweak)
    /\ seg.Size = dynamic =>
          /\ fileBytes >= DigitsVal(seg.Offset)
          /\ vol.StorageSize = fileBytes - DigitsVal(seg.Offset)
    /\ (seg.Size # dynamic /\ IsAllDigits(seg.Size)) => vol.StorageSize = DigitsVal(seg.Size)
    /\ vol.StorageOffset = DigitsVal(seg.Offset)
    /\ vol.StorageEncryption = seg.Encryption
    /\ vol.StorageIvTweak = DigitsVal(seg.IvTweak)
    /\ vol.StorageSectorSize = seg.SectorSize

SizeWellFormed(size) == size = dynamic \/ (IsAllDigits(size) /\ DigitsVal(size) # 0)

\* C19: LUKS2 UnsealVolume returns an error and no Volume when the size of the segment
\* is neither "dynamic" nor a non-zero decimal byte count: "0", text that is no
\* number, and a negative number such as "-512"
C19_MalformedSizeRejected ==
    dev.version = 2 =>
        \A k \in DOMAIN ret.calls :
            (/\ ret.calls[k].r.digestUsed # -1
             /\ Len(CallDigest(k).Segments) = 1
             /\ IsAllDigits(CallDigest(k).Segments[1])
             /\ DigitsVal(CallDigest(k).Segments[1]) \in DOMAIN dev.meta.Segments
             /\ ~SizeWellFormed(CallSegment(k).Size)) =>
                /\ ret.calls[k].r.err # "nil"
                /\ ret.calls[k].r.vol = << >>

\* C20: a Volume that LUKS1 UnsealVolume returns has type "LUKS1", encryption
\* cipher_name-cipher_mode, offset payload_offset * 512, size = file size - offset,
\* sector size 512 and iv tweak 0; with a file smaller than the offset the call
\* returns an error and no Volume
C20_Luks1VolumeGeometry ==
    dev.version = 1 =>
        /\ \A k \in VolumeCalls :
              LET vol == ret.calls[k].r.vol[1]
              IN  /\ vol.LuksType = "LUKS1"
                  /\ Len(vol.StorageEncryption) = 1 + Len(dev.hdr.CipherMode)
                  /\ Head(vol.StorageEncryption) = dev.hdr.CipherName
                  /\ Tail(vol.StorageEncryption) = dev.hdr.CipherMode
                  /\ vol.StorageOffset = 512 * dev.hdr.PayloadOffset
                  /\ vol.StorageSize + vol.StorageOffset = file.size
                  /\ vol.StorageSize >= 0
                  /\ vol.StorageSectorSize = 512
                  /\ vol.StorageIvTweak = 0
        /\ file.size < 512 * dev.hdr.PayloadOffset => VolumeCalls = {}

\* UnsealVolume returned a Volume of a LUKS1 device: the payload of the 24 MiB image
C20_Witness ==
    /\ ret.op = "UnsealVolume"
    /\ dev.version = 1
    /\ VolumeCalls = {1}
    /\ ret.calls[1].r.vol[1].StorageOffset = 2097152
    /\ ret.calls[1].r.vol[1].StorageSize = 23068672
    /\ ret.calls[1].r.vol[1].StorageEncryption = << "aes", "xts", "plain64" >>

\* the Tokens() result of a LUKS2 device, when it gave a list
TokenList == ret.value[1]
V2TokensReturned == ret.op = "Tokens" /\ dev.version = 2 /\ ret.err = "nil"

\* C21: LUKS2 Tokens() returns one Token per entry of the tokens map, in ascending
\* token-ID order, with ID the map key, Type the entry's type, Slots its keyslots as
\* integers and Payload its raw JSON bytes; a keyslot that is no integer makes the
\* call fail
C21_Luks2TokensAscending ==
    /\ V2TokensReturned =>
          /\ Len(TokenList) = Cardinality(DOMAIN dev.meta.Tokens)
          /\ \A i, j \in DOMAIN TokenList : i < j => TokenList[i].ID < TokenList[j].ID
          /\ \A i \in DOMAIN TokenList :
                /\ TokenList[i].ID \in DOMAIN dev.meta.Tokens
                /\ TokenList[i].Type = dev.meta.Tokens[TokenList[i].ID].node.Type
                /\ TokenList[i].Payload = dev.meta.Tokens[TokenList[i].ID].raw
                /\ Len(TokenList[i].Slots) = Len(dev.meta.Tokens[TokenList[i].ID].node.Keyslots)
                /\ \A k \in DOMAIN TokenList[i].Slots :
                      /\ IsAllDigits(dev.meta.Tokens[TokenList[i].ID].node.Keyslots[k])
                      /\ TokenList[i].Slots[k] =
                            DigitsVal(dev.meta.Tokens[TokenList[i].ID].node.Keyslots[k])
    /\ (ret.op = "Tokens" /\ dev.version = 2
        /\ \E t \in DOMAIN dev.meta.Tokens :
              \E k \in DOMAIN dev.meta.Tokens[t].node.Keyslots :
                  ~IsAllDigits(dev.meta.Tokens[t].node.Keyslots[k])) =>
          ret.err # "nil" /\ TokenList = << >>

V1TokensReturned == ret.op = "Tokens" /\ dev.version = 1

\* the LUKSMeta slots of the image that hold something
MetaSlotsUsed ==
    {i \in 0..(luksV1NumSlots - 1) : file.luksmeta.hdr.Slots[i].UUID # luksMetaNullUUID}

\* the payload bytes the image holds for LUKSMeta slot i
MetaPayload(i) ==
    LET off == file.luksmeta.offset + file.luksmeta.hdr.Slots[i].Offset
    IN  IF off \in DOMAIN file.luksmeta.payloads
        THEN Fit(file.luksmeta.payloads[off], file.luksmeta.hdr.Slots[i].Length)
        ELSE MakeBytes(file.luksmeta.hdr.Slots[i].Length)

\* the file is open and holds every byte range Tokens reads
MetaReadsServed ==
    /\ handle = "open"
    /\ roundUp(holeOffsetFrom(dev, 0, 0), 4096) + luksMetaHeaderSize <= file.size
    /\ \A i \in MetaSlotsUsed :
          file.luksmeta.offset + file.luksmeta.hdr.Slots[i].Offset
              + file.luksmeta.hdr.Slots[i].Length <= file.size

MetaChecksumsMatch ==
    /\ crc32c(luksMetaBytes([file.luksmeta.hdr EXCEPT !.Crc32 = 0])) = file.luksmeta.hdr.Crc32
    /\ \A i \in MetaSlotsUsed : crc32c(MetaPayload(i)) = file.luksmeta.hdr.Slots[i].Crc32

\* C22: Tokens() of a LUKS1 device returns an empty list and no error when the
\* region after the key material does not start with "LUKSMETA"; an error and no
\* list when the magic is there and the header CRC or a slot's payload CRC does not
\* match; otherwise one Token per slot with a non-zero UUID, in ascending index
\* order, with ID the index, Slots the index alone, Type "clevis" for the clevis
\* UUID and "" otherwise, and Payload the slot's Length bytes.
C22_Luks1Tokens ==
    (V1TokensReturned /\ MetaReadsServed) =>
        IF file.luksmeta.hdr.Magic # luksMetaMagic
        THEN ret.err = "nil" /\ TokenList = << >>
        ELSE IF ~MetaChecksumsMatch
        THEN ret.err # "nil" /\ TokenList = << >>
        ELSE /\ ret.err = "nil"
             /\ Len(TokenList) = Cardinality(MetaSlotsUsed)
             /\ \A i \in DOMAIN TokenList :
                   /\ TokenList[i].ID \in MetaSlotsUsed
                   /\ \A j \in DOMAIN TokenList : i < j => TokenList[i].ID < TokenList[j].ID
                   /\ TokenList[i].Slots = << TokenList[i].ID >>
                   /\ TokenList[i].Type =
                         (IF file.luksmeta.hdr.Slots[TokenList[i].ID].UUID = clevisUUID
                          THEN "clevis" ELSE "")
                   /\ TokenList[i].Payload = MetaPayload(TokenList[i].ID)

C22_Witness ==
    /\ V1TokensReturned /\ MetaReadsServed /\ ret.err = "nil"
    /\ Len(TokenList) = 2
    /\ TokenList[1].ID = 3 /\ TokenList[1].Type = "clevis"
    /\ TokenList[2].ID = 6 /\ TokenList[2].Type = ""

\* the KDF parameters of the keyslot the last UnsealVolume call named
CalledKdf == dev.meta.Keyslots[ret.slot].Kdf
V2UnsealReturned ==
    ret.op = "UnsealVolume" /\ dev.version = 2 /\ ret.slot \in DOMAIN dev.meta.Keyslots

\* C23: for a LUKS2 keyslot with kdf.type "pbkdf2" the AF key is derived with the
\* hash the registry (getHashAlgo) holds under kdf.hash: the derivation fails with
\* an unknown-algorithm error only for a name that is absent from the registry,
\* and a kdf.type that is none of pbkdf2, argon2i, argon2id fails with an
\* unknown-algorithm error.
C23_Pbkdf2HashFromRegistry ==
    (V2UnsealReturned /\ ret.err # "kdf.salt base64 parsing failed") =>
        /\ CalledKdf.Type = "pbkdf2" =>
              (ret.err = "Unknown kdf.hash algorithm" <=> getHashAlgo(CalledKdf.Hash) = 0)
        /\ CalledKdf.Type \notin {"pbkdf2", "argon2i", "argon2id"} =>
              ret.err = "Unknown kdf type"

\* C24: every file handle that Open opened is released exactly once: the handle of
\* a Device stays open until the first Close and is closed from then on, and when
\* Open fails after the file was opened (short read, magic mismatch, unsupported
\* version, init error) the handle is not left open.
C24_HandleReleased ==
    /\ (ret.op = "Open" /\ ret.err # "nil") => handle # "open"
    /\ (ret.op = "Open" /\ ret.err = "nil") => handle = "open"
    /\ ret.op = "Close" => handle = "closed"

\* the last UnsealVolume call and whether it got as far as comparing the digests
Unsealed == ret.op = "UnsealVolume" /\ LastCall.r.compared # {}

\* C25: the digest comparison of UnsealVolume (LUKS1 and LUKS2) takes the same
\* steps wherever the first differing byte is: it looks at every byte of the
\* stored digest and never stops early.
C25_DigestComparedInFull ==
    Unsealed => LastCall.r.compared = {Len(LastCall.r.expectedDigest)}

\* the persistent flags the header of the image lists (config.flags); none in LUKS1
PersistentFlags ==
    IF FileVersion = 2 THEN file.decoded.meta.Config.Flags ELSE << >>

\* Open leaves the persistent flags, FlagsAdd the old list followed by its
\* arguments, FlagsClear the empty list
FlagsStep ==
    /\ (pc = "start" /\ ret'.err = "nil") => flags' = PersistentFlags
    /\ (pc = "idle" /\ ret'.op = "FlagsAdd") => flags' = flags \o ret'.value[1]
    /\ (pc = "idle" /\ ret'.op = "FlagsClear") => flags' = << >>

\* C26: the flags list of a LUKS2 device whose header has persistent config.flags F
\* is F after Open, F followed by a after FlagsAdd(a...), and empty after
\* FlagsClear; the Volume UnsealVolume returns carries the list the device has at
\* the time of the call; the list of a LUKS1 device is empty after Open.
C26_FlagsLifecycle ==
    /\ [][FlagsStep]_vars
    /\ [](GaveVolume => LastCall.r.vol[1].Flags = flags)

C26_Witness ==
    /\ ret.op = "UnsealVolume" /\ GaveVolume /\ dev.version = 2
    /\ PersistentFlags = << "allow-discards" >>
    /\ LastCall.r.vol[1].Flags = << "allow-discards", "bogus" >>

\* the keyslot the last UnsealVolume call named, and its size on disk
CalledKeyslot == dev.meta.Keyslots[ret.slot]
CalledKeyslotSize == CalledKeyslot.KeySize * stripesNum

\* the AF data does not fit the area or is no whole number of sectors
AreaSizeViolated ==
    \/ /\ IsAllDigits(CalledKeyslot.Area.Size)
       /\ CalledKeyslotSize > DigitsVal(CalledKeyslot.Area.Size)
    \/ CalledKeyslotSize % storageSectorSize # 0

\* the area does not start on a sector boundary
AreaOffsetViolated ==
    /\ IsAllDigits(CalledKeyslot.Area.Offset)
    /\ DigitsVal(CalledKeyslot.Area.Offset) % storageSectorSize # 0

\* C27: UnsealVolume of a LUKS2 device returns an error and no Volume when, with
\* L = key_size * 4000, af.stripes is not 4000, or L exceeds area.size, or L is no
\* multiple of 512, or area.offset is no multiple of 512; the violations of size
\* and alignment are found before any byte of the keyslot area is read.
C27_KeyslotGeometryRejected ==
    V2UnsealReturned =>
        /\ (CalledKeyslot.Af.Stripes # stripesNum \/ AreaSizeViolated \/ AreaOffsetViolated)
              => (ret.err # "nil" /\ ~GaveVolume /\ LastCall.r.vol = << >>)
        /\ (AreaSizeViolated \/ AreaOffsetViolated) => ~LastCall.r.areaRead

C27_Witness ==
    /\ V2UnsealReturned /\ AreaOffsetViolated /\ ~AreaSizeViolated
    /\ LastCall.r.kdfRan /\ ~LastCall.r.areaRead
    /\ ret.err = "keyslot offset is not aligned to sector size"

\* x is 2^k for some k >= 0
IsTwoToThe(x) == \E k \in 0..30 : x = 2^k

\* C28: isPowerOfTwo(x) is true exactly when x = 2^k for some k >= 0: it is false
\* for 0 and for every value with more than one bit set.
C28_PowerOfTwoExactly ==
    (ret.op = "isPowerOfTwo" /\ pc = "returned") =>
        (ret.value[2] <=> IsTwoToThe(ret.value[1]))

\* initV2Device accepts a header only when HeaderSize is a power of two within
\* 16384..4194304, and it rejects the others before it reads the full header
HeaderSizeChecked ==
    (ret.op = "Open" /\ IsV2Header /\ file.size >= headerV2Size) =>
        LET hdrSize == FromBE32(SubSeq(file.header, hdrSizeOffset + 1, hdrSizeOffset + 4))
        IN  IF IsTwoToThe(hdrSize) /\ hdrSize >= 16384 /\ hdrSize <= 4194304
            THEN ret.err # "Invalid size of LUKS header"
            ELSE ret.err = "Invalid size of LUKS header"

\* C29: UnsealVolume is deterministic: with the header, the keyslot and the
\* passphrase fixed, every call has the same outcome, and when more than one digest
\* lists the keyslot every call verifies with the same digest and describes the
\* same segment.
C29_UnsealDeterministic ==
    V2UnsealReturned =>
        \A digOrder \in Orders(DOMAIN dev.meta.Digests) :
            LET again == deviceV2_UnsealVolume(dev, osFile, flags, ret.slot, ret.pass,
                                               digOrder)
            IN  /\ again.err = LastCall.r.err
                /\ again.vol = LastCall.r.vol
                /\ again.digestUsed = LastCall.r.digestUsed

\* C30: UnsealVolume never faults on the length of a digest: with a LUKS2 stored
\* digest longer than the output of the hash, or a LUKS1 key_bytes below 20, it
\* returns an error value and slices nothing out of range; and a LUKS2 stored
\* digest of length 0 does not make every passphrase verify.
C30_NoFaultOnDigestLength ==
    ret.op = "UnsealVolume" =>
        /\ ret.err \notin Panics
        /\ (dev.version = 1 /\ dev.hdr.KeyBytes < 20) => ret.err # "nil"
        /\ (dev.version = 2 /\ GaveVolume /\ LastCall.r.expectedDigest = << >>)
              => ret.pass = SlotPass(ret.slot)

====
